---- MODULE Spec2Model ----
(***************************************************************************)
(* A model of the container / item-stack core of the serenity server:      *)
(* Container (slot array, occupants, packets), ItemStack (amount, traits,  *)
(* back-reference to its container, use pipeline) and the handlers that    *)
(* drive them.                                                             *)
(***************************************************************************)
EXTENDS Integers, Sequences, FiniteSets, TLC

(***************************************************************************)
(* Bounds of the model.                                                    *)
(***************************************************************************)
\* Number of ItemStack objects that can be alive at once.
NumStacks == 2
\* Number of slots of the inventory container (36 in the server).
Size == 2
\* maxAmount of the stackable item type (64 in the game).
MaxStack == 3
\* Largest amount a call may request or produce (amounts are unbounded in the code).
AmountCap == 4

\* null, as a slot content (stacks are numbered from 1).
Null == 0

\* null, as ItemStack.container or Player.openedContainer.
NoContainer == "none"

\* The stacks a state may hold; one more object can exist inside a call.
Stacks == 1..NumStacks

Objects == 1..(NumStacks + 1)

\* The containers a player's requests name: the inventory and the one-slot cursor.
Containers == {"inventory", "cursor"}

Players == {"p1"}

\* Item types: one stackable, one not.
Types == {"stone", "sword"}

\* ItemType.maxAmount, read through ItemStack.maxAmount.
typeMaxAmount(t) == IF t = "sword" THEN 1 ELSE MaxStack

\* The traits the item palette registers for a type (ItemStack.initialize).
registry(t) == IF t = "sword" THEN {"registered"} ELSE {}

\* The base NBT tags of a type (type.properties.getTags()), as <<name, value>>.
typeTags(t) == IF t = "sword" THEN {<<"Damage", 0>>} ELSE {}

\* Container.size: the length the storage was constructed with.
size(c) == IF c = "cursor" THEN 1 ELSE Size

Slots(c) == 0..(size(c) - 1)

Min(a, b) == IF a <= b THEN a ELSE b

VARIABLES
  alive,              \* the ItemStack objects that exist
  type,               \* ItemStack.type
  amount,             \* ItemStack.amount
  metadata,           \* ItemStack.metadata
  container,          \* ItemStack.container (back-reference)
  world,              \* whether ItemStack.world is set
  traits,             \* identifiers of ItemStack.traits
  dynamicProperties,  \* ItemStack.dynamicProperties, entries in insertion order
  nbt,                \* tags of ItemStack.nbt
  storage,            \* Container.storage, slot i at index i + 1
  occupants,          \* Container.occupants
  openedContainer,    \* Player.openedContainer
  sent,               \* packets sent to occupants by the last swapItems call
  last,               \* the last call: operation and result
  tasks,              \* the show / close calls in flight, each at an await
  run,                \* the use / useOnBlock / useOnEntity call in progress
  player,             \* Player.gamemode, blockTarget, itemTarget
  level,              \* the last block action handled and the packets it sent
  probe,              \* a function under study: its name, arguments, result
  provider,           \* LevelDBProvider: cached chunks, stored records, save log
  tick                \* World: dayTime, currentTick and what the last onTick did

vars == <<alive, type, amount, metadata, container, world, traits,
          dynamicProperties, nbt, storage, occupants, openedContainer, sent, last,
          tasks, run, player, level, probe, provider, tick>>

\* The variables of the world around the containers.
extVars == <<player, level, probe, provider, tick>>

(***************************************************************************)
(* The object heap a call works on: the fields of every ItemStack, every   *)
(* container's storage, and the packets sent so far by the call.           *)
(***************************************************************************)
Heap ==
  [alive |-> alive, type |-> type, amount |-> amount, metadata |-> metadata,
   container |-> container, world |-> world, traits |-> traits,
   dynamicProperties |-> dynamicProperties, nbt |-> nbt, storage |-> storage,
   sent |-> <<>>, oom |-> FALSE]

\* Array element assignment arr[i] = v (i counted from 0). A negative index
\* sets a property of the array object and touches no slot; an index at or
\* past the length grows the array, and the slots in between read as null.
ArraySet(arr, i, v) ==
  IF i < 0 THEN arr
  ELSE IF i < Len(arr) THEN [arr EXCEPT ![i + 1] = v]
  ELSE [j \in 1..(i + 1) |-> IF j <= Len(arr) THEN arr[j]
                             ELSE IF j = i + 1 THEN v ELSE Null]

\* Array.prototype.indexOf: the first index holding v, or -1.
indexOf(arr, v) ==
  IF \E i \in 1..Len(arr) : arr[i] = v
  THEN (CHOOSE i \in 1..Len(arr) : arr[i] = v /\ \A j \in 1..(i - 1) : arr[j] # v) - 1
  ELSE -1

\* Container.getItem: storage[slot] ?? null.
getItem(h, c, slot) ==
  IF slot >= 0 /\ slot < Len(h.storage[c]) THEN h.storage[c][slot + 1] ELSE Null

\* ItemStack.maxAmount and ItemStack.isStackable.
maxAmount(h, item) == typeMaxAmount(h.type[item])

isStackable(h, item) == maxAmount(h, item) > 1

\* The InventorySlotPacket of clearSlot: an empty descriptor for one slot.
SlotPacket(c, slot) ==
  [kind |-> "slot", container |-> c, slot |-> slot, items |-> <<>>, to |-> occupants[c]]

\* The InventoryContentPacket of update: the storage as it is when it is built.
ContentPacket(h, c) ==
  [kind |-> "content", container |-> c, slot |-> -1, items |-> h.storage[c],
   to |-> occupants[c]]

\* Container.clearSlot
clearSlot(h, c, slot) ==
  LET h1 == [h EXCEPT !.storage[c] = ArraySet(@, slot, Null)]
  IN  IF occupants[c] = {} THEN h1
      ELSE [h1 EXCEPT !.sent = Append(@, SlotPacket(c, slot))]

\* Container.update(): one content packet to the occupants.
update(h, c) ==
  IF occupants[c] = {} THEN h
  ELSE [h EXCEPT !.sent = Append(@, ContentPacket(h, c))]

\* A variant of setItem that keeps a stack of amount 0 in the slot.
setItemKeepEmpty(h, c, slot, item) ==
  update([h EXCEPT !.storage[c] = ArraySet(@, slot, item), !.container[item] = c], c)

\* Container.setItem
setItem(h, c, slot, item) ==
  LET h1 == [h EXCEPT !.storage[c] = ArraySet(@, slot, item)]
      h2 == IF h1.amount[item] = 0 THEN clearSlot(h1, c, slot) ELSE h1
      h3 == [h2 EXCEPT !.container[item] = c]
  IN  update(h3, c)

\* ItemStack.update
itemUpdate(h, item) ==
  IF h.container[item] = NoContainer THEN h
  ELSE LET c    == h.container[item]
           slot == indexOf(h.storage[c], item)
       IN  IF h.amount[item] <= 0 THEN clearSlot(h, c, slot)
           ELSE setItem(h, c, slot, item)

\* ItemStack.setAmount
setAmount(h, item, n) == itemUpdate([h EXCEPT !.amount[item] = n], item)

\* ItemStack.decrement
decrement(h, item, n) == setAmount(h, item, h.amount[item] - n)

\* ItemStack.increment
increment(h, item, n) == setAmount(h, item, h.amount[item] + n)

\* The first stack identifier not in use (the next object to allocate).
FreeId(h) ==
  IF h.alive = Objects THEN 1
  ELSE CHOOSE i \in Objects \ h.alive : \A j \in Objects \ h.alive : i <= j

\* ItemStackNbtMap.add of several tags: a tag replaces the tag of the same name.
nbtAdd(map, tags) == {t \in map : \A x \in tags : x[1] # t[1]} \cup tags

\* ItemStack.create(type, {amount, metadata, world}): a new object; with a
\* world it is initialized with the traits of the palette. oom records that
\* the model ran out of identifiers.
create(h, t, amt, meta, w) ==
  LET id == FreeId(h)
  IN  [h |-> [h EXCEPT !.oom = @ \/ (h.alive = Objects),
                       !.alive = @ \cup {id},
                       !.type[id] = t,
                       !.amount[id] = amt,
                       !.metadata[id] = meta,
                       !.container[id] = NoContainer,
                       !.world[id] = w,
                       !.traits[id] = IF w THEN registry(t) ELSE {},
                       !.dynamicProperties[id] = <<>>,
                       !.nbt[id] = nbtAdd({}, typeTags(t))],
       id |-> id]

\* ItemStack.equals
equals(h, a, b) ==
  /\ h.type[a] = h.type[b]
  /\ h.metadata[a] = h.metadata[b]
  /\ Len(h.dynamicProperties[a]) = Len(h.dynamicProperties[b])
  /\ Cardinality(h.traits[a]) = Cardinality(h.traits[b])
  /\ Cardinality(h.nbt[a]) = Cardinality(h.nbt[b])
  /\ h.dynamicProperties[a] = h.dynamicProperties[b]
  /\ \A id \in h.traits[a] : id \in h.traits[b]
  /\ \A tag \in h.nbt[a] : \E o \in h.nbt[b] : o[1] = tag[1] /\ o[2] = tag[2]

\* The findIndex of addItem: the first slot holding a stack that is not full
\* (by the incoming item's maxAmount) and equals the incoming item, or -1.
findSlot(h, c, item) ==
  LET ok(i) == /\ h.storage[c][i] # Null
               /\ ~(h.amount[h.storage[c][i]] >= maxAmount(h, item))
               /\ equals(h, item, h.storage[c][i])
  IN  IF \E i \in 1..Len(h.storage[c]) : ok(i)
      THEN (CHOOSE i \in 1..Len(h.storage[c]) :
              ok(i) /\ \A j \in 1..(i - 1) : ~ok(j)) - 1
      ELSE -1

\* The stack addItem merges the incoming item into: the stack of the slot found
\* when the item is stackable and not full, else none.
existingItemOf(h, c, item) ==
  IF /\ findSlot(h, c, item) > -1
     /\ ~(h.amount[item] >= maxAmount(h, item))
     /\ isStackable(h, item)
  THEN h.storage[c][findSlot(h, c, item) + 1]
  ELSE Null

\* A variant of addItem that moves the whole incoming amount onto the slot found.
addItemUncapped(h, c, item) ==
  LET slot == findSlot(h, c, item)
      emptySlot == indexOf(h.storage[c], Null)
  IN  IF slot > -1
      THEN [h |-> decrement(increment(h, h.storage[c][slot + 1], h.amount[item]),
                            item, h.amount[item]),
            ret |-> TRUE]
      ELSE IF emptySlot = -1 THEN [h |-> h, ret |-> FALSE]
      ELSE [h |-> setItem(h, c, emptySlot, item), ret |-> TRUE]

\* Container.addItem; ret is the value returned.
RECURSIVE addItem(_, _, _)
addItem(h, c, item) ==
  LET slot  == findSlot(h, c, item)
      maxed == h.amount[item] >= maxAmount(h, item)
  IN  IF slot > -1 /\ ~maxed /\ isStackable(h, item)
      THEN LET existingItem == h.storage[c][slot + 1]
               amt == Min(maxAmount(h, item) - h.amount[existingItem], h.amount[item])
               h1  == increment(h, existingItem, amt)
               h2  == decrement(h1, item, amt)
           IN  [h |-> h2, ret |-> TRUE]
      ELSE LET emptySlot == indexOf(h.storage[c], Null)
           IN  IF emptySlot = -1 THEN [h |-> h, ret |-> FALSE]
               ELSE IF h.amount[item] > maxAmount(h, item)
               THEN LET cr == create(h, h.type[item], maxAmount(h, item),
                                     h.metadata[item], h.world[item])
                        h1 == setItem(cr.h, c, emptySlot, cr.id)
                        h2 == decrement(h1, item, maxAmount(h, item))
                    IN  IF cr.h.oom THEN [h |-> cr.h, ret |-> FALSE]
                        ELSE addItem(h2, c, item)
               ELSE [h |-> setItem(h, c, emptySlot, item), ret |-> TRUE]

\* Container.removeItem; ret is the stack returned (or null).
removeItem(h, c, slot, n) ==
  LET item == getItem(h, c, slot)
  IN  IF item = Null THEN [h |-> h, ret |-> Null]
      ELSE LET removed == Min(n, h.amount[item])
               h1 == decrement(h, item, removed)
               h2 == IF h1.amount[item] = 0
                     THEN [h1 EXCEPT !.storage[c] = ArraySet(@, slot, Null)]
                     ELSE h1
           IN  [h |-> h2, ret |-> item]

\* A takeItem that hands out the stored stack itself, as removeItem does.
takeItemInPlace(h, c, slot, n) == removeItem(h, c, slot, n)

\* Container.takeItem; ret is the new stack returned (or null). trait.clone
\* builds a trait bound to the new stack and returns it; nothing stores it.
takeItem(h, c, slot, n) ==
  LET item == getItem(h, c, slot)
  IN  IF item = Null THEN [h |-> h, ret |-> Null]
      ELSE LET removed == Min(n, h.amount[item])
               h1 == decrement(h, item, removed)
               h2 == IF h1.amount[item] = 0 THEN clearSlot(h1, c, slot) ELSE h1
               cr == create(h2, h.type[item], removed, h.metadata[item], h.world[item])
               h3 == [cr.h EXCEPT !.dynamicProperties[cr.id] =
                                     h.dynamicProperties[item]]
               h4 == update(h3, c)
               h5 == [h4 EXCEPT !.nbt[cr.id] = nbtAdd(@, h.nbt[item])]
           IN  [h |-> h5, ret |-> cr.id]

\* Container.swapItems
swapItems(h, c, slot, otherSlot, targetContainer) ==
  LET item      == getItem(h, c, slot)
      otherItem == getItem(h, targetContainer, otherSlot)
      h1 == clearSlot(h, c, slot)
      h2 == clearSlot(h1, targetContainer, otherSlot)
      h3 == IF item # Null THEN setItem(h2, targetContainer, otherSlot, item) ELSE h2
  IN  IF otherItem # Null THEN setItem(h3, c, slot, otherItem) ELSE h3

\* Container.clear: clearSlot of every slot.
RECURSIVE clearFrom(_, _, _)
clearFrom(h, c, i) ==
  IF i >= Len(h.storage[c]) THEN h ELSE clearFrom(clearSlot(h, c, i), c, i + 1)

clear(h, c) == clearFrom(h, c, 0)

\* A stack nothing refers to any more is collected.
collect(h, s) ==
  [h EXCEPT !.alive = @ \ {s}, !.type[s] = "stone", !.amount[s] = 0,
            !.metadata[s] = 0, !.container[s] = NoContainer, !.world[s] = FALSE,
            !.traits[s] = {}, !.dynamicProperties[s] = <<>>, !.nbt[s] = {}]

\* ItemStackRequestHandler.handle, a take-or-place action whose interaction
\* signal was not cancelled. The slots are taken modulo the container size.
takeOrPlace(h, source, rawSlot, destination, rawDestination, n) ==
  LET sourceSlot      == rawSlot % Len(h.storage[source])
      destinationSlot == rawDestination % Len(h.storage[destination])
      sourceItem      == getItem(h, source, sourceSlot)
      destinationItem == getItem(h, destination, destinationSlot)
  IN  IF sourceItem = Null THEN h
      ELSE IF n <= h.amount[sourceItem]
      THEN LET r == takeItem(h, source, sourceSlot, n)
           IN  IF destinationItem # Null
               THEN collect(increment(r.h, destinationItem, r.h.amount[r.ret]), r.ret)
               ELSE LET h1 == setItem(r.h, destination, destinationSlot, r.ret)
                    IN  IF getItem(h1, "cursor", 0) = Null
                        THEN clearSlot(h1, "cursor", 0)
                        ELSE h1
      ELSE h

\* ItemStack.addTrait(trait): a trait already present is kept as it is.
addTrait(h, item, id) ==
  IF id \in h.traits[item] THEN h ELSE [h EXCEPT !.traits[item] = @ \cup {id}]

\* ItemStack.removeTrait
removeTrait(h, item, id) == [h EXCEPT !.traits[item] = @ \ {id}]

\* Map.set on an insertion-ordered map kept as a sequence of <<key, value>>.
MapSet(m, key, value) ==
  IF \E i \in 1..Len(m) : m[i][1] = key
  THEN [i \in 1..Len(m) |-> IF m[i][1] = key THEN <<key, value>> ELSE m[i]]
  ELSE Append(m, <<key, value>>)

\* ItemStack.setDynamicProperty
setDynamicProperty(h, item, key, value) ==
  [h EXCEPT !.dynamicProperties[item] = MapSet(@, key, value)]

(***************************************************************************)
(* The calls, as actions.                                                  *)
(***************************************************************************)
\* Number of block positions a block action can name.
NumBlocks == 2

\* Player.blockTarget = null.
NoBlock == 0

NoPlayer == [gamemode |-> "survival", blockTarget |-> NoBlock, itemTarget |-> FALSE]

NoLevel == [type |-> "none", position |-> NoBlock, isAir |-> FALSE, vetoed |-> FALSE,
            events |-> <<>>]

NoProbe == [fn |-> "none"]

NoProvider == [op |-> "none"]

NoTick == [op |-> "none"]

\* The world around the containers, at rest.
ExtInit ==
  /\ player = NoPlayer
  /\ level = NoLevel
  /\ probe = NoProbe
  /\ provider = NoProvider
  /\ tick = NoTick

\* Number of show / close calls that can be in flight at once.
MaxTasks == 2

\* Largest number of traits on the stack that is used.
MaxTraits == 2

\* Largest number of corrections of the use method (recursive calls) followed.
MaxDepth == 2

NoTask == [pc |-> "idle", op |-> "none", target |-> NoContainer,
           closing |-> NoContainer, player |-> "none"]

NoRun == [pc |-> "idle", method |-> "none", traits |-> <<>>, i |-> 0,
          canceled |-> FALSE, sawFalse |-> FALSE, reached |-> {}, all |-> {},
          depth |-> 0, vetoed |-> FALSE, result |-> FALSE, thrown |-> {}]

\* The record of the last call of addItem, takeItem or swapItems: its name,
\* the boolean it returned (addItem), the stack it returned (takeItem).
\* Other calls leave NoCall.
NoCall == [op |-> "none", ok |-> FALSE, ret |-> Null]

\* The state after a call that left the heap h, recorded as call l. Amounts
\* are unbounded in the code; the model follows them up to AmountCap.
Commit(h, l) ==
  /\ ~h.oom
  /\ h.alive \subseteq Stacks
  /\ \A s \in Stacks : h.amount[s] \in 0..AmountCap
  /\ alive' = h.alive
  /\ type' = h.type
  /\ amount' = h.amount
  /\ metadata' = h.metadata
  /\ container' = h.container
  /\ world' = h.world
  /\ traits' = h.traits
  /\ dynamicProperties' = h.dynamicProperties
  /\ nbt' = h.nbt
  /\ storage' = h.storage
  /\ sent' = IF l.op = "swapItems" THEN h.sent ELSE <<>>
  /\ last' = l

\* ItemStack.create(type, {amount}) by a caller (a craft result, a loaded entry).
Create(t, n) ==
  /\ LET cr == create(Heap, t, n, 0, FALSE)
     IN  Commit(cr.h, NoCall)
  /\ UNCHANGED <<occupants, openedContainer, tasks, run, extVars>>

\* A stack no slot holds is dropped by its holder and collected.
Discard(s) ==
  /\ s \in alive
  /\ \A c \in Containers : \A i \in 1..Len(storage[c]) : storage[c][i] # s
  /\ Commit(collect(Heap, s), NoCall)
  /\ UNCHANGED <<occupants, openedContainer, tasks, run, extVars>>

SetItem(c, slot, s) ==
  /\ s \in alive
  /\ Commit(setItem(Heap, c, slot, s), NoCall)
  /\ UNCHANGED <<occupants, openedContainer, tasks, run, extVars>>

AddItem(c, s) ==
  /\ s \in alive
  /\ LET r == addItem(Heap, c, s)
     IN  Commit(r.h, [NoCall EXCEPT !.op = "addItem", !.ok = r.ret,
                                    !.ret = existingItemOf(Heap, c, s)])
  /\ UNCHANGED <<occupants, openedContainer, tasks, run, extVars>>

RemoveItem(c, slot, n) ==
  /\ LET r == removeItem(Heap, c, slot, n)
     IN  Commit(r.h, NoCall)
  /\ UNCHANGED <<occupants, openedContainer, tasks, run, extVars>>

TakeItem(c, slot, n) ==
  /\ LET r == takeItem(Heap, c, slot, n)
     IN  Commit(r.h, [NoCall EXCEPT !.op = "takeItem", !.ret = r.ret])
  /\ UNCHANGED <<occupants, openedContainer, tasks, run, extVars>>

SwapItems(c, slot, oc, oslot) ==
  /\ Commit(swapItems(Heap, c, slot, oslot, oc), [NoCall EXCEPT !.op = "swapItems"])
  /\ UNCHANGED <<occupants, openedContainer, tasks, run, extVars>>

ClearSlot(c, slot) ==
  /\ Commit(clearSlot(Heap, c, slot), NoCall)
  /\ UNCHANGED <<occupants, openedContainer, tasks, run, extVars>>

Clear(c) ==
  /\ Commit(clear(Heap, c), NoCall)
  /\ UNCHANGED <<occupants, openedContainer, tasks, run, extVars>>

SetAmount(s, n) ==
  /\ s \in alive
  /\ Commit(setAmount(Heap, s, n), NoCall)
  /\ UNCHANGED <<occupants, openedContainer, tasks, run, extVars>>

\* increment() and decrement() with their default amount, 1.
Increment(s) ==
  /\ s \in alive
  /\ Commit(increment(Heap, s, 1), NoCall)
  /\ UNCHANGED <<occupants, openedContainer, tasks, run, extVars>>

Decrement(s) ==
  /\ s \in alive
  /\ Commit(decrement(Heap, s, 1), NoCall)
  /\ UNCHANGED <<occupants, openedContainer, tasks, run, extVars>>

TakeOrPlace(source, rawSlot, destination, rawDestination, n) ==
  /\ Commit(takeOrPlace(Heap, source, rawSlot, destination, rawDestination, n), NoCall)
  /\ UNCHANGED <<occupants, openedContainer, tasks, run, extVars>>

Init ==
  /\ alive = {}
  /\ type = [s \in Objects |-> "stone"]
  /\ amount = [s \in Objects |-> 0]
  /\ metadata = [s \in Objects |-> 0]
  /\ container = [s \in Objects |-> NoContainer]
  /\ world = [s \in Objects |-> FALSE]
  /\ traits = [s \in Objects |-> {}]
  /\ dynamicProperties = [s \in Objects |-> <<>>]
  /\ nbt = [s \in Objects |-> {}]
  /\ storage = [c \in Containers |-> [i \in 1..size(c) |-> Null]]
  /\ occupants = [c \in Containers |-> {}]
  /\ openedContainer = [p \in Players |-> NoContainer]
  /\ sent = <<>>
  /\ last = NoCall
  /\ tasks = [i \in 1..MaxTasks |-> NoTask]
  /\ run = NoRun
  /\ ExtInit

Next ==
  \/ \E t \in Types, n \in 1..MaxStack : Create(t, n)
  \/ \E s \in Stacks : Discard(s)
  \/ \E c \in Containers, s \in Stacks : \E slot \in Slots(c) : SetItem(c, slot, s)
  \/ \E c \in Containers, s \in Stacks : AddItem(c, s)
  \/ \E c \in Containers, n \in 1..MaxStack : \E slot \in Slots(c) : RemoveItem(c, slot, n)
  \/ \E c \in Containers, n \in 0..AmountCap : \E slot \in Slots(c) : TakeItem(c, slot, n)
  \/ \E c \in Containers, oc \in Containers :
       \E slot \in Slots(c), oslot \in Slots(oc) : SwapItems(c, slot, oc, oslot)
  \/ \E c \in Containers : \E slot \in Slots(c) : ClearSlot(c, slot)
  \/ \E c \in Containers : Clear(c)
  \/ \E s \in Stacks, n \in 0..AmountCap : SetAmount(s, n)
  \/ \E s \in Stacks : Increment(s)
  \/ \E s \in Stacks : Decrement(s)
  \/ \E c \in Containers, oc \in Containers, n \in 1..MaxStack :
       \E slot \in 0..size(c), oslot \in Slots(oc) : TakeOrPlace(c, slot, oc, oslot, n)

Spec == Init /\ [][Next]_vars

\* The state while the player views the inventory (after show(player)).
InitOpen ==
  /\ alive = {}
  /\ type = [s \in Objects |-> "stone"]
  /\ amount = [s \in Objects |-> 0]
  /\ metadata = [s \in Objects |-> 0]
  /\ container = [s \in Objects |-> NoContainer]
  /\ world = [s \in Objects |-> FALSE]
  /\ traits = [s \in Objects |-> {}]
  /\ dynamicProperties = [s \in Objects |-> <<>>]
  /\ nbt = [s \in Objects |-> {}]
  /\ storage = [c \in Containers |-> [i \in 1..size(c) |-> Null]]
  /\ occupants = [c \in Containers |-> IF c = "inventory" THEN Players ELSE {}]
  /\ openedContainer = [p \in Players |-> "inventory"]
  /\ sent = <<>>
  /\ last = NoCall
  /\ tasks = [i \in 1..MaxTasks |-> NoTask]
  /\ run = NoRun
  /\ ExtInit

\* The container's own calls, as the viewing player's packets show them.
NextOpen ==
  \/ \E t \in Types, n \in 1..MaxStack : Create(t, n)
  \/ \E s \in Stacks : Discard(s)
  \/ \E c \in Containers, s \in Stacks : \E slot \in Slots(c) : SetItem(c, slot, s)
  \/ \E c \in Containers, s \in Stacks : AddItem(c, s)
  \/ \E c \in Containers, n \in 1..MaxStack : \E slot \in Slots(c) : RemoveItem(c, slot, n)
  \/ \E c \in Containers, oc \in Containers :
       \E slot \in Slots(c), oslot \in Slots(oc) : SwapItems(c, slot, oc, oslot)
  \/ \E c \in Containers : \E slot \in Slots(c) : ClearSlot(c, slot)
  \/ \E c \in Containers : Clear(c)

SpecOpen == InitOpen /\ [][NextOpen]_vars

(***************************************************************************)
(* Stacks with traits and dynamic properties, split by takeItem.           *)
(***************************************************************************)
\* Trait identifiers: one the palette registers for swords, one added by a caller.
TraitIds == {"registered", "custom"}

PropKeys == {"owner"}

PropValues == {1, 2}

\* ItemStack.create(type, {amount, world}).
CreateIn(t, n, w) ==
  /\ LET cr == create(Heap, t, n, 0, w)
     IN  Commit(cr.h, NoCall)
  /\ UNCHANGED <<occupants, openedContainer, tasks, run, extVars>>

AddTrait(s, id) ==
  /\ s \in alive
  /\ Commit(addTrait(Heap, s, id), NoCall)
  /\ UNCHANGED <<occupants, openedContainer, tasks, run, extVars>>

RemoveTrait(s, id) ==
  /\ s \in alive
  /\ Commit(removeTrait(Heap, s, id), NoCall)
  /\ UNCHANGED <<occupants, openedContainer, tasks, run, extVars>>

SetDynamicProperty(s, key, value) ==
  /\ s \in alive
  /\ Commit(setDynamicProperty(Heap, s, key, value), NoCall)
  /\ UNCHANGED <<occupants, openedContainer, tasks, run, extVars>>

NextTake ==
  \/ \E w \in BOOLEAN : CreateIn("sword", 1, w)
  \/ \E s \in Stacks, id \in TraitIds : AddTrait(s, id)
  \/ \E s \in Stacks, id \in TraitIds : RemoveTrait(s, id)
  \/ \E s \in Stacks, key \in PropKeys, value \in PropValues :
       SetDynamicProperty(s, key, value)
  \/ \E s \in Stacks : Discard(s)
  \/ \E s \in Stacks : \E slot \in Slots("inventory") : SetItem("inventory", slot, s)
  \/ \E slot \in Slots("inventory") : TakeItem("inventory", slot, 1)

SpecTake == Init /\ [][NextTake]_vars

(***************************************************************************)
(* Container.show and Container.close, one step per stretch of code        *)
(* between awaits, so that calls for one player interleave as the event    *)
(* loop lets them.                                                         *)
(***************************************************************************)
stackVars == <<alive, type, amount, metadata, container, world, traits,
               dynamicProperties, nbt, storage, sent, last>>

\* show(player) up to its first await. With a container open it enters
\* close of that container, which throws unless the player is an occupant
\* and otherwise awaits the send of the close packet. With none open it adds
\* the player, sets openedContainer and awaits the open hooks.
ShowStart(i, c, p) ==
  /\ tasks[i].pc = "idle"
  /\ IF openedContainer[p] # NoContainer
     THEN /\ p \in occupants[openedContainer[p]]
          /\ tasks' = [tasks EXCEPT ![i] = [pc |-> "send", op |-> "show", target |-> c,
                                           closing |-> openedContainer[p], player |-> p]]
          /\ UNCHANGED <<occupants, openedContainer>>
     ELSE /\ occupants' = [occupants EXCEPT ![c] = @ \cup {p}]
          /\ openedContainer' = [openedContainer EXCEPT ![p] = c]
          /\ tasks' = [tasks EXCEPT ![i] = [pc |-> "hooks", op |-> "show", target |-> c,
                                           closing |-> NoContainer, player |-> p]]
  /\ UNCHANGED <<stackVars, run, extVars>>

\* close(player) called by a handler, up to the await of the send.
CloseStart(i, c, p) ==
  /\ tasks[i].pc = "idle"
  /\ p \in occupants[c]
  /\ tasks' = [tasks EXCEPT ![i] = [pc |-> "send", op |-> "close", target |-> c,
                                   closing |-> c, player |-> p]]
  /\ UNCHANGED <<occupants, openedContainer, stackVars, run, extVars>>

\* close resumes after the send: openedContainer = null, occupants.delete,
\* then the await of the close hooks.
CloseSent(i) ==
  /\ tasks[i].pc = "send"
  /\ openedContainer' = [openedContainer EXCEPT ![tasks[i].player] = NoContainer]
  /\ occupants' = [occupants EXCEPT ![tasks[i].closing] = @ \ {tasks[i].player}]
  /\ tasks' = [tasks EXCEPT ![i].pc = "closed"]
  /\ UNCHANGED <<stackVars, run, extVars>>

\* close returns. A close call is over; a show call goes on: occupants.add,
\* openedContainer = this, then the await of the open hooks.
CloseDone(i) ==
  /\ tasks[i].pc = "closed"
  /\ IF tasks[i].op = "close"
     THEN /\ tasks' = [tasks EXCEPT ![i] = NoTask]
          /\ UNCHANGED <<occupants, openedContainer>>
     ELSE /\ occupants' = [occupants EXCEPT ![tasks[i].target] = @ \cup {tasks[i].player}]
          /\ openedContainer' = [openedContainer EXCEPT ![tasks[i].player] = tasks[i].target]
          /\ tasks' = [tasks EXCEPT ![i].pc = "hooks"]
  /\ UNCHANGED <<stackVars, run, extVars>>

\* show returns.
ShowDone(i) ==
  /\ tasks[i].pc = "hooks"
  /\ tasks' = [tasks EXCEPT ![i] = NoTask]
  /\ UNCHANGED <<occupants, openedContainer, stackVars, run, extVars>>

NextShow ==
  \/ \E i \in 1..MaxTasks, c \in Containers, p \in Players : ShowStart(i, c, p)
  \/ \E i \in 1..MaxTasks, c \in Containers, p \in Players : CloseStart(i, c, p)
  \/ \E i \in 1..MaxTasks : CloseSent(i)
  \/ \E i \in 1..MaxTasks : CloseDone(i)
  \/ \E i \in 1..MaxTasks : ShowDone(i)

SpecShow == Init /\ [][NextShow]_vars

(***************************************************************************)
(* ItemStack.use, useOnBlock and useOnEntity: the loop over the traits,    *)
(* one hook per step.                                                      *)
(***************************************************************************)
Methods == {"use", "useOnBlock", "useOnEntity"}

\* What a hook can do: be absent or return nothing, return a boolean, return
\* a number (a corrected use method), throw, or (an async hook) return a promise
\* that is fulfilled ("promise") or rejected with the error thrown in the hook
\* ("reject").
HookResults == {"undefined", "true", "false", "number", "throw", "promise", "reject"}

\* Remove element i of a sequence.
Without(seq, i) == [k \in 1..(Len(seq) - 1) |-> IF k < i THEN seq[k] ELSE seq[k + 1]]

\* A call of the method on a stack with n traits: canceled = false.
UseStart(m, n) ==
  /\ run.pc = "idle"
  /\ run' = [NoRun EXCEPT !.pc = "loop", !.method = m,
                          !.traits = [k \in 1..n |-> k], !.i = 1, !.all = 1..n]
  /\ UNCHANGED <<stackVars, occupants, openedContainer, tasks, extVars>>

\* One iteration of the loop: the hook of the next trait gives r.
UseHook(r) ==
  /\ run.pc = "loop"
  /\ run.i <= Len(run.traits)
  /\ LET reached == run.reached \cup {run.traits[run.i]}
     IN  CASE r = "undefined" ->
                run' = [run EXCEPT !.i = @ + 1, !.reached = reached]
           [] r = "number" ->
                /\ run.depth < MaxDepth
                /\ run' = [run EXCEPT !.i = 1, !.canceled = FALSE, !.sawFalse = FALSE,
                                      !.reached = {}, !.all = {run.traits[k] : k \in 1..Len(run.traits)},
                                      !.depth = @ + 1]
           [] r = "throw" ->
                run' = [run EXCEPT !.traits = Without(@, run.i), !.reached = reached,
                                   !.thrown = @ \cup {run.traits[run.i]}]
           [] r = "reject" ->
                run' = [run EXCEPT !.i = @ + 1, !.canceled = FALSE, !.reached = reached,
                                   !.thrown = @ \cup {run.traits[run.i]}]
           [] r = "false" ->
                run' = [run EXCEPT !.i = @ + 1, !.canceled = TRUE, !.sawFalse = TRUE,
                                   !.reached = reached]
           [] OTHER ->
                run' = [run EXCEPT !.i = @ + 1, !.canceled = FALSE, !.reached = reached]
  /\ UNCHANGED <<stackVars, occupants, openedContainer, tasks, extVars>>

\* After the loop: the signal is emitted; the call returns
\* !canceled && signal.emit().
UseEmit(vetoed) ==
  /\ run.pc = "loop"
  /\ run.i > Len(run.traits)
  /\ run' = [run EXCEPT !.pc = "done", !.vetoed = vetoed,
                        !.result = (~run.canceled) /\ ~vetoed]
  /\ UNCHANGED <<stackVars, occupants, openedContainer, tasks, extVars>>

\* The caller takes the result.
UseReturn ==
  /\ run.pc = "done"
  /\ run' = NoRun
  /\ UNCHANGED <<stackVars, occupants, openedContainer, tasks, extVars>>

NextUse ==
  \/ \E m \in Methods, n \in 0..MaxTraits : UseStart(m, n)
  \/ \E r \in HookResults : UseHook(r)
  \/ \E vetoed \in BOOLEAN : UseEmit(vetoed)
  \/ UseReturn

SpecUse == Init /\ [][NextUse]_vars

(***************************************************************************)
(* Properties of the container calls.                                      *)
(***************************************************************************)
\* The slots (container, index) of a storage st that hold stack s.
slotsOf(st, s) ==
  UNION {{<<c, i>> : i \in {j \in 1..Len(st[c]) : st[c][j] = s}} : c \in Containers}

RECURSIVE sumSlots(_, _, _)
sumSlots(arr, am, i) ==
  IF i = 0 THEN 0
  ELSE (IF arr[i] = Null THEN 0 ELSE am[arr[i]]) + sumSlots(arr, am, i - 1)

\* The sum of the amounts over all slots of container c.
total(st, am, c) == sumSlots(st[c], am, Len(st[c]))

\* C1: in every reachable state each ItemStack occupies at most one slot
\* over all containers.
C1_AtMostOneSlot ==
  \A s \in Stacks : Cardinality(slotsOf(storage, s)) <= 1

\* C2: when addItem(item) completes, the sum of the amounts over all slots
\* exceeds the sum before the call by at most the incoming amount.
C2_AddItemCreatesNoUnits ==
  [][last'.op = "addItem" => \A c \in Containers, s \in Stacks :
       AddItem(c, s) =>
         total(storage', amount', c) - total(storage, amount, c) <= amount[s]]_vars

\* C3: whenever addItem(item) returns true the container's total amount has
\* grown by exactly the incoming amount and no unit of it remains outside
\* the container.
C3_AddItemTrueMeansAdded ==
  [][last'.op = "addItem" => \A c \in Containers, s \in Stacks :
       (AddItem(c, s) /\ last'.ok) =>
         /\ total(storage', amount', c) - total(storage, amount, c) = amount[s]
         /\ \/ amount'[s] = 0
            \/ \E i \in 1..size(c) : storage'[c][i] = s]_vars

\* C4: takeItem(slot, n) on a slot holding amount a reduces that stack by
\* exactly min(n, a), returns a different stack of amount min(n, a) and
\* leaves the slot null when n >= a; on an empty slot it returns null and
\* changes nothing.
C4_TakeItemSplits ==
  [][last'.op = "takeItem" =>
      \A c \in Containers, n \in 0..AmountCap : \A slot \in Slots(c) :
       TakeItem(c, slot, n) =>
         LET item == storage[c][slot + 1]
         IN  IF item = Null
             THEN /\ last'.ret = Null
                  /\ UNCHANGED <<alive, type, amount, metadata, container, world,
                                 traits, dynamicProperties, nbt, storage>>
             ELSE /\ amount'[item] = amount[item] - Min(n, amount[item])
                  /\ last'.ret # Null
                  /\ last'.ret # item
                  /\ last'.ret \notin alive
                  /\ amount'[last'.ret] = Min(n, amount[item])
                  /\ (n >= amount[item] => storage'[c][slot + 1] = Null)]_vars

\* A takeItem of 1 from a stack of 3: a new stack of 1, the stored one at 2.
C4_PartialTake ==
  /\ last.op = "takeItem"
  /\ last.ret \in alive
  /\ amount[last.ret] = 1
  /\ slotsOf(storage, last.ret) = {}
  /\ \E c \in Containers : \E i \in 1..size(c) :
       /\ storage[c][i] \notin {Null, last.ret}
       /\ amount[storage[c][i]] = 2
       /\ type[storage[c][i]] = type[last.ret]

\* The entries of an insertion-ordered map, as a set.
Entries(m) == {m[i] : i \in 1..Len(m)}

\* C5: the stack returned by takeItem has the dynamic-property keys and
\* values, the set of trait identifiers and the NBT tags of the original.
C5_TakeItemClones ==
  [][last'.op = "takeItem" =>
      \A c \in Containers, n \in 0..AmountCap : \A slot \in Slots(c) :
       (TakeItem(c, slot, n) /\ storage[c][slot + 1] # Null) =>
         LET item == storage[c][slot + 1]
             ret  == last'.ret
         IN  /\ Entries(dynamicProperties'[ret]) = Entries(dynamicProperties'[item])
             /\ traits'[ret] = traits'[item]
             /\ nbt'[ret] = nbt'[item]]_vars

\* C6: after swapItems(a, b, other) the stack that was in slot a of this
\* container is in slot b of the target, the stack that was in slot b of the
\* target is in slot a of this container, and every other slot is unchanged.
C6_SwapExchanges ==
  [][last'.op = "swapItems" =>
      \A c \in Containers, oc \in Containers : \A slot \in Slots(c), oslot \in Slots(oc) :
       SwapItems(c, slot, oc, oslot) =>
         /\ storage'[oc][oslot + 1] = storage[c][slot + 1]
         /\ storage'[c][slot + 1] = storage[oc][oslot + 1]
         /\ \A d \in Containers : \A i \in 1..size(d) :
              (<<d, i>> # <<c, slot + 1>> /\ <<d, i>> # <<oc, oslot + 1>>)
                => storage'[d][i] = storage[d][i]]_vars

\* C7: during swapItems both slots are cleared before either is set: every
\* content packet of the call follows the slot packets that clear the two
\* slots, and no packet shows an ItemStack in two slots.
C7_SwapClearsBeforeSets ==
  [][last'.op = "swapItems" =>
      \A c \in Containers, oc \in Containers : \A slot \in Slots(c), oslot \in Slots(oc) :
       SwapItems(c, slot, oc, oslot) =>
         \A j \in 1..Len(sent') :
           sent'[j].kind = "content" =>
             /\ occupants[c] # {} =>
                  \E i \in 1..(j - 1) : sent'[i] = SlotPacket(c, slot)
             /\ occupants[oc] # {} =>
                  \E i \in 1..(j - 1) : sent'[i] = SlotPacket(oc, oslot)
             /\ \A s \in Stacks :
                  Cardinality({k \in 1..Len(sent'[j].items) : sent'[j].items[k] = s}) <= 1]_vars

\* C8: a player is in the occupants set of at most one container, and
\* player.openedContainer is that container, or null when the player is in
\* no occupants set.
C8_OneOpenContainer ==
  \A p \in Players :
    /\ Cardinality({c \in Containers : p \in occupants[c]}) <= 1
    /\ \A c \in Containers : p \in occupants[c] => openedContainer[p] = c
    /\ (\A c \in Containers : p \notin occupants[c]) => openedContainer[p] = NoContainer

\* C9: in every reachable state every ItemStack satisfies
\* 0 <= amount <= maxAmount.
C9_AmountWithinMax ==
  \A s \in alive : amount[s] >= 0 /\ amount[s] <= typeMaxAmount(type[s])

\* C10: use, useOnBlock and useOnEntity return false whenever a hook
\* returned false during the pass, the traits after it are still invoked,
\* and the result is true only when no hook returned false and the signal
\* was not vetoed.
C10_VetoIsKept ==
  run.pc = "done" =>
    /\ run.sawFalse => ~run.result
    /\ run.reached = run.all
    /\ run.result => (~run.sawFalse /\ ~run.vetoed)

(***************************************************************************)
(* PlayerAuthInputHandler.handleBlockActions: one action of the packet per *)
(* step.                                                                   *)
(***************************************************************************)
\* The containers and calls at rest, as Init leaves them.
ContainerInit ==
  /\ alive = {}
  /\ type = [s \in Objects |-> "stone"]
  /\ amount = [s \in Objects |-> 0]
  /\ metadata = [s \in Objects |-> 0]
  /\ container = [s \in Objects |-> NoContainer]
  /\ world = [s \in Objects |-> FALSE]
  /\ traits = [s \in Objects |-> {}]
  /\ dynamicProperties = [s \in Objects |-> <<>>]
  /\ nbt = [s \in Objects |-> {}]
  /\ storage = [c \in Containers |-> [i \in 1..size(c) |-> Null]]
  /\ occupants = [c \in Containers |-> {}]
  /\ openedContainer = [p \in Players |-> NoContainer]
  /\ sent = <<>>
  /\ last = NoCall
  /\ tasks = [i \in 1..MaxTasks |-> NoTask]
  /\ run = NoRun

containerVars == <<stackVars, occupants, openedContainer, tasks, run>>

Blocks == 1..NumBlocks

Gamemodes == {"survival", "creative", "spectator"}

\* What an onStartBreak / onStartUse hook gives: nothing, true or false.
BreakResults == {"undefined", "true", "false"}

\* The hook results of the traits of a block or item, in iteration order.
HookSeqs == UNION {[1..n -> BreakResults] : n \in 0..MaxTraits}

\* The loop "if (success === undefined) continue; canceled = !success" from
\* trait i on.
RECURSIVE canceledAfter(_, _, _)
canceledAfter(hooks, canceled, i) ==
  IF i > Len(hooks) THEN canceled
  ELSE canceledAfter(hooks,
                     IF hooks[i] = "undefined" THEN canceled ELSE hooks[i] = "false",
                     i + 1)

LevelEvent(event, position) == [event |-> event, position |-> position]

\* The part shared by StartDestroyBlock, ContinueDestroyBlock and
\* AbortDestroyBlock: a block target is stopped and reset.
stopBreak(pl, ev) ==
  IF pl.blockTarget # NoBlock
  THEN [player |-> [pl EXCEPT !.blockTarget = NoBlock],
        events |-> Append(ev, LevelEvent("StopBlockCracking", pl.blockTarget))]
  ELSE [player |-> pl, events |-> ev]

\* case ContinueDestroyBlock / StartDestroyBlock. isAir is the block at the
\* position, hooks what its traits' onStartBreak return, held whether the
\* player holds an item, emitted the PlayerStartUsingItemSignal result and
\* itemHooks what the held item's onStartUse hooks return.
startDestroyBlock(pl, position, isAir, hooks, held, emitted, itemHooks) ==
  IF pl.gamemode = "creative" THEN [player |-> pl, events |-> <<>>, ran |-> FALSE]
  ELSE LET st == stopBreak(pl, <<>>)
       IN  IF isAir
           THEN [player |-> st.player,
                 events |-> Append(st.events, LevelEvent("UpdateBlock", position)),
                 ran |-> FALSE]
           ELSE IF canceledAfter(hooks, FALSE, 1)
           THEN [player |-> st.player, events |-> st.events, ran |-> TRUE]
           ELSE LET p1 == [st.player EXCEPT !.blockTarget = position]
                    e1 == Append(st.events, LevelEvent("StartBlockCracking", position))
                IN  IF held /\ ~canceledAfter(itemHooks, ~emitted, 1)
                    THEN [player |-> [p1 EXCEPT !.itemTarget = TRUE], events |-> e1,
                          ran |-> TRUE]
                    ELSE [player |-> p1, events |-> e1, ran |-> TRUE]

StartDestroyBlock(t, position, isAir, hooks, held, emitted, itemHooks) ==
  /\ LET r == startDestroyBlock(player, position, isAir, hooks, held, emitted, itemHooks)
     IN  /\ player' = r.player
         /\ level' = [type |-> t, position |-> position, isAir |-> isAir,
                      vetoed |-> r.ran /\ \E i \in 1..Len(hooks) : hooks[i] = "false",
                      events |-> r.events]
  /\ UNCHANGED <<containerVars, probe, provider, tick>>

\* A variant of the AbortDestroyBlock case that leaves the item target.
abortKeepsItem(pl) ==
  [player |-> stopBreak(pl, <<>>).player, events |-> stopBreak(pl, <<>>).events,
   onStopBreak |-> pl.blockTarget, onStopUse |-> FALSE]

\* case AbortDestroyBlock. onStopBreak is the block whose onStopBreak hooks
\* are called (none without a block target), onStopUse whether the stop
\* signal and the onStopUse hooks of the item target are issued.
abortDestroyBlock(pl) ==
  LET st == stopBreak(pl, <<>>)
  IN  [player |-> [st.player EXCEPT !.itemTarget = FALSE], events |-> st.events,
       onStopBreak |-> pl.blockTarget, onStopUse |-> pl.itemTarget]

AbortDestroyBlock ==
  /\ LET r == abortDestroyBlock(player)
     IN  /\ player' = r.player
         /\ level' = [type |-> "AbortDestroyBlock", position |-> NoBlock,
                      isAir |-> FALSE, vetoed |-> FALSE, events |-> r.events,
                      onStopBreak |-> r.onStopBreak, onStopUse |-> r.onStopUse]
  /\ UNCHANGED <<containerVars, probe, provider, tick>>

\* case InputData.StartUsingItem: itemTarget = player.getHeldItem().
StartUsingItem(held) ==
  /\ player' = [player EXCEPT !.itemTarget = held]
  /\ level' = [NoLevel EXCEPT !.type = "StartUsingItem"]
  /\ UNCHANGED <<containerVars, probe, provider, tick>>

InitBreak ==
  /\ ContainerInit
  /\ player \in {[NoPlayer EXCEPT !.gamemode = g] : g \in Gamemodes}
  /\ level = NoLevel
  /\ probe = NoProbe
  /\ provider = NoProvider
  /\ tick = NoTick

NextBreak ==
  \/ \E t \in {"StartDestroyBlock", "ContinueDestroyBlock"}, position \in Blocks,
        isAir \in BOOLEAN, hooks \in HookSeqs, held \in BOOLEAN, emitted \in BOOLEAN,
        itemHooks \in HookSeqs :
       StartDestroyBlock(t, position, isAir, hooks, held, emitted, itemHooks)
  \/ AbortDestroyBlock
  \/ \E held \in BOOLEAN : StartUsingItem(held)

SpecBreak == InitBreak /\ [][NextBreak]_vars

\* C11: if any onStartBreak hook of a non-air block returns false, the
\* player's blockTarget is not set to that block, no start-cracking event is
\* broadcast and itemTarget is not set.
C11_VetoAbortsBreak ==
  [][(level'.type \in {"StartDestroyBlock", "ContinueDestroyBlock"}
        /\ ~level'.isAir /\ level'.vetoed) =>
       /\ player'.blockTarget # level'.position
       /\ \A i \in 1..Len(level'.events) : level'.events[i].event # "StartBlockCracking"
       /\ player'.itemTarget = player.itemTarget]_vars

(***************************************************************************)
(* PlayerAuthInputHandler.validatePlayerMotion, a function of the player   *)
(* and the reported motion. Lengths are in units of 1 / MotionUnit block.  *)
(***************************************************************************)
\* Units per block.
MotionUnit == 2

\* Largest component of a reported delta, in units.
MaxDelta == 3

\* The distance, in blocks, from which a move counts as a teleport.
TeleportDistance == 4

\* serenity.properties.movementRewindThreshold: one block.
movementRewindThreshold == MotionUnit

Deltas == (0 - MaxDelta)..MaxDelta

\* Components of position - player.position, in units.
Offsets == {0, 5, 6, TeleportDistance * MotionUnit}

Abs(x) == IF x < 0 THEN 0 - x ELSE x

\* player.position.distance(position) >= 4, on the squares.
teleported(offset) ==
  offset[1] * offset[1] + offset[2] * offset[2] + offset[3] * offset[3]
    >= (TeleportDistance * MotionUnit) * (TeleportDistance * MotionUnit)

validatePlayerMotion(movementValidation, gamemode, flying, isFalling, offset, delta) ==
  IF ~movementValidation THEN TRUE
  ELSE IF gamemode = "creative" THEN TRUE
  ELSE IF gamemode = "spectator" THEN TRUE
  ELSE IF flying THEN TRUE
  ELSE IF Abs(delta[1]) >= movementRewindThreshold THEN FALSE
  ELSE IF delta[2] >= movementRewindThreshold THEN FALSE
  ELSE IF delta[2] <= 0 - movementRewindThreshold THEN isFalling
  ELSE IF Abs(delta[3]) >= movementRewindThreshold THEN FALSE
  ELSE IF teleported(offset) THEN FALSE
  ELSE TRUE

ValidatePlayerMotion ==
  /\ probe.fn = "validatePlayerMotion"
  /\ ~probe.done
  /\ probe' = [probe EXCEPT
       !.done = TRUE,
       !.result = validatePlayerMotion(probe.movementValidation, probe.gamemode,
                                       probe.flying, probe.isFalling,
                                       probe.offset, probe.delta)]
  /\ UNCHANGED <<containerVars, player, level, provider, tick>>

InitMotion ==
  /\ ContainerInit
  /\ player = NoPlayer /\ level = NoLevel /\ provider = NoProvider /\ tick = NoTick
  /\ \E movementValidation \in BOOLEAN, gamemode \in Gamemodes, flying \in BOOLEAN,
        isFalling \in BOOLEAN, offset \in Offsets \X {0} \X Offsets,
        delta \in Deltas \X Deltas \X Deltas :
       probe = [fn |-> "validatePlayerMotion", movementValidation |-> movementValidation,
                gamemode |-> gamemode, flying |-> flying, isFalling |-> isFalling,
                offset |-> offset, delta |-> delta, done |-> FALSE, result |-> FALSE]

NextMotion == ValidatePlayerMotion

SpecMotion == InitMotion /\ [][NextMotion]_vars

\* C12: validatePlayerMotion returns true in creative or spectator mode,
\* when flying or when validation is disabled; otherwise false if |delta.x|
\* or |delta.z| reaches T, if delta.y >= T, if delta.y <= -T while not
\* falling, or if the position is 4 or more blocks away; true otherwise.
C12_MotionVerdict ==
  (probe.fn = "validatePlayerMotion" /\ probe.done) =>
    probe.result =
      IF \/ ~probe.movementValidation
         \/ probe.gamemode \in {"creative", "spectator"}
         \/ probe.flying
      THEN TRUE
      ELSE ~ \/ Abs(probe.delta[1]) >= movementRewindThreshold
             \/ Abs(probe.delta[3]) >= movementRewindThreshold
             \/ probe.delta[2] >= movementRewindThreshold
             \/ (probe.delta[2] <= 0 - movementRewindThreshold /\ ~probe.isFalling)
             \/ teleported(probe.offset)

(***************************************************************************)
(* LevelDBProvider: the chunk cache and onSave.  provider.chunks is the    *)
(* cache in insertion order; provider.log lists the calls onSave made, in  *)
(* order, each with its outcome.                                           *)
(***************************************************************************)
\* Chunk coordinates per dimension.
NumChunks == 2

\* Largest number of chunks in the cache.
MaxCached == 2

Dimensions == {"overworld", "nether"}

ChunkIds == 1..NumChunks

\* dimension.entities, in insertion order.
entitiesOf(dimension) ==
  IF dimension = "overworld"
    THEN <<[id |-> 1, isPlayer |-> TRUE], [id |-> 2, isPlayer |-> FALSE]>>
    ELSE <<[id |-> 3, isPlayer |-> FALSE]>>

\* dimension.blocks, the hashes in insertion order.
blocksOf(dimension) == IF dimension = "overworld" THEN <<1>> ELSE <<2>>

\* The records whose write can throw.
Records ==
  ({"writeChunk"} \X Dimensions \X ChunkIds)
    \cup UNION {{<<IF entitiesOf(d)[i].isPlayer THEN "writePlayer" ELSE "writeEntity",
                    d, entitiesOf(d)[i].id>> : i \in 1..Len(entitiesOf(d))} : d \in Dimensions}
    \cup UNION {{<<"writeBlock", d, blocksOf(d)[i]>> : i \in 1..Len(blocksOf(d))} : d \in Dimensions}

\* The records onSave writes for a cache: those of its dirty non-empty
\* chunks and of the entities and blocks of its dimensions.
attempted(chunks) ==
  {r \in Records :
     \E i \in 1..Len(chunks) :
       /\ chunks[i].dim = r[2]
       /\ r[1] = "writeChunk" =>
            (chunks[i].id = r[3] /\ chunks[i].dirty /\ ~chunks[i].empty)}

Call(kind, dimension, id, result, ids) ==
  [kind |-> kind, dim |-> dimension, id |-> id, result |-> result, ids |-> ids]

NoSave ==
  [op |-> "none", chunks |-> <<>>, before |-> <<>>, log |-> <<>>,
   flushed |-> FALSE, threw |-> FALSE]

\* The chunk after the call, and what the call did.
writeChunk(chunk, fails) ==
  IF chunk.empty \/ ~chunk.dirty
    THEN [chunk |-> chunk, result |-> "skipped"]
  ELSE IF <<"writeChunk", chunk.dim, chunk.id>> \in fails
    THEN [chunk |-> chunk, result |-> "threw"]
  ELSE [chunk |-> [chunk EXCEPT !.dirty = FALSE], result |-> "written"]

\* A loop over the cached chunks that writes every chunk, dirty or not.
RECURSIVE saveAllChunks(_, _, _, _, _)
saveAllChunks(chunks, log, dimension, fails, i) ==
  IF i > Len(chunks) THEN [chunks |-> chunks, log |-> log]
  ELSE IF chunks[i].dim # dimension
    THEN saveAllChunks(chunks, log, dimension, fails, i + 1)
  ELSE saveAllChunks([chunks EXCEPT ![i].dirty = FALSE],
                     Append(log, Call("writeChunk", dimension, chunks[i].id, "written", <<>>)),
                     dimension, fails, i + 1)

\* A loop over the cached chunks with no try / catch: the first failure ends it.
RECURSIVE saveChunksNoCatch(_, _, _, _, _)
saveChunksNoCatch(chunks, log, dimension, fails, i) ==
  IF i > Len(chunks) THEN [chunks |-> chunks, log |-> log]
  ELSE IF chunks[i].dim # dimension \/ ~chunks[i].dirty
    THEN saveChunksNoCatch(chunks, log, dimension, fails, i + 1)
  ELSE LET w == writeChunk(chunks[i], fails)
           l == Append(log, Call("writeChunk", dimension, chunks[i].id, w.result, <<>>))
       IN  IF w.result = "threw" THEN [chunks |-> chunks, log |-> l]
           ELSE saveChunksNoCatch([chunks EXCEPT ![i] = w.chunk], l, dimension, fails, i + 1)

\* for (const [, chunk] of chunks) of onSave.
RECURSIVE saveChunks(_, _, _, _, _)
saveChunks(chunks, log, dimension, fails, i) ==
  IF i > Len(chunks) THEN [chunks |-> chunks, log |-> log]
  ELSE IF chunks[i].dim # dimension \/ ~chunks[i].dirty
    THEN saveChunks(chunks, log, dimension, fails, i + 1)
  ELSE LET w == writeChunk(chunks[i], fails)
       IN  saveChunks([chunks EXCEPT ![i] = w.chunk],
                      Append(log, Call("writeChunk", dimension, chunks[i].id, w.result, <<>>)),
                      dimension, fails, i + 1)

\* for (const [uniqueId, entity] of dimension.entities) of onSave.
RECURSIVE saveEntities(_, _, _, _, _)
saveEntities(log, uniqueIds, dimension, fails, i) ==
  IF i > Len(entitiesOf(dimension))
    THEN Append(log, Call("writeAvailableEntities", dimension, 0, "written", uniqueIds))
  ELSE LET entity == entitiesOf(dimension)[i]
           kind == IF entity.isPlayer THEN "writePlayer" ELSE "writeEntity"
           ok == <<kind, dimension, entity.id>> \notin fails
       IN  saveEntities(
             Append(log, Call(kind, dimension, entity.id,
                              IF ok THEN "written" ELSE "threw", <<>>)),
             IF ok /\ ~entity.isPlayer THEN Append(uniqueIds, entity.id) ELSE uniqueIds,
             dimension, fails, i + 1)

\* for (const [hash, block] of dimension.blocks) of onSave.
RECURSIVE saveBlocks(_, _, _, _, _)
saveBlocks(log, hashes, dimension, fails, i) ==
  IF i > Len(blocksOf(dimension))
    THEN Append(log, Call("writeAvailableBlocks", dimension, 0, "written", hashes))
  ELSE LET hash == blocksOf(dimension)[i]
           ok == <<"writeBlock", dimension, hash>> \notin fails
       IN  saveBlocks(
             Append(log, Call("writeBlock", dimension, hash,
                              IF ok THEN "written" ELSE "threw", <<>>)),
             IF ok THEN Append(hashes, hash) ELSE hashes,
             dimension, fails, i + 1)

\* The keys of this.chunks: the dimensions with a cached chunk, in the order
\* of their first chunk.
RECURSIVE cachedDimensions(_, _)
cachedDimensions(chunks, i) ==
  IF i > Len(chunks) THEN <<>>
  ELSE LET rest == cachedDimensions(chunks, i + 1)
       IN  IF \E j \in 1..(i - 1) : chunks[j].dim = chunks[i].dim
             THEN rest ELSE <<chunks[i].dim>> \o rest

\* for (const [dimension, chunks] of this.chunks) of onSave.
RECURSIVE saveDimensions(_, _, _, _, _)
saveDimensions(chunks, log, dims, fails, i) ==
  IF i > Len(dims) THEN [chunks |-> chunks, log |-> log]
  ELSE LET c == saveChunks(chunks, log, dims[i], fails, 1)
           e == saveEntities(c.log, <<>>, dims[i], fails, 1)
           b == saveBlocks(e, <<>>, dims[i], fails, 1)
       IN  saveDimensions(c.chunks, b, dims, fails, i + 1)

onSave(pr, fails) ==
  LET s == saveDimensions(pr.chunks,
                          <<Call("writeFileSync", "none", 0, "written", <<>>)>>,
                          cachedDimensions(pr.chunks, 1), fails, 1)
  IN  [op |-> "onSave", chunks |-> s.chunks, before |-> pr.chunks,
       log |-> Append(s.log, Call("flush", "none", 0, "written", <<>>)),
       flushed |-> TRUE, threw |-> FALSE]

\* readChunk of a chunk that is not in the cache: the chunk read from the
\* database or made by the generator is added to the cache.
ReadChunk(dimension, id, dirty, empty) ==
  /\ Len(provider.chunks) < MaxCached
  /\ \A i \in 1..Len(provider.chunks) :
       ~(provider.chunks[i].dim = dimension /\ provider.chunks[i].id = id)
  /\ provider' = [NoSave EXCEPT
       !.op = "readChunk",
       !.chunks = Append(provider.chunks,
                         [dim |-> dimension, id |-> id, dirty |-> dirty, empty |-> empty])]
  /\ UNCHANGED <<containerVars, player, level, probe, tick>>

OnSave(fails) ==
  /\ provider' = onSave(provider, fails)
  /\ UNCHANGED <<containerVars, player, level, probe, tick>>

InitSave ==
  /\ ContainerInit
  /\ player = NoPlayer /\ level = NoLevel /\ probe = NoProbe /\ tick = NoTick
  /\ provider = NoSave

NextSave ==
  \/ \E dimension \in Dimensions, id \in ChunkIds, dirty \in BOOLEAN, empty \in BOOLEAN :
       ReadChunk(dimension, id, dirty, empty)
  \/ \E fails \in SUBSET attempted(provider.chunks) : OnSave(fails)

SpecSave == InitSave /\ [][NextSave]_vars

\* The calls of the last onSave with the given kind, dimension and id.
calls(kind, dimension, id) ==
  {i \in 1..Len(provider.log) :
     /\ provider.log[i].kind = kind
     /\ provider.log[i].dim = dimension
     /\ provider.log[i].id = id}

\* The chunk records the last onSave wrote for a chunk.
written(chunk) ==
  {i \in calls("writeChunk", chunk.dim, chunk.id) : provider.log[i].result = "written"}

\* C13: onSave writes a chunk record only for cached chunks flagged dirty; a
\* chunk that is clean when onSave starts is not written and stays clean, and
\* a dirty non-empty chunk whose write succeeds is written once and becomes
\* clean.
C13_SaveIsIncremental ==
  provider.op = "onSave" =>
    /\ Len(provider.chunks) = Len(provider.before)
    /\ \A i \in 1..Len(provider.before) :
         LET b == provider.before[i]
             a == provider.chunks[i]
         IN  /\ written(b) # {} => b.dirty
             /\ ~b.dirty => (written(b) = {} /\ ~a.dirty)
             /\ (b.dirty /\ ~b.empty
                   /\ \A j \in calls("writeChunk", b.dim, b.id) :
                        provider.log[j].result # "threw")
                  => (Cardinality(written(b)) = 1 /\ ~a.dirty)
    /\ Cardinality({i \in 1..Len(provider.log) :
                      provider.log[i].kind = "writeChunk"
                        /\ provider.log[i].result = "written"})
         = Cardinality({i \in 1..Len(provider.before) :
                          /\ provider.before[i].dirty /\ ~provider.before[i].empty
                          /\ provider.chunks[i] # provider.before[i]})

\* A save of one dirty non-empty chunk and one clean chunk that wrote one
\* chunk record.
C13_OneDirtyOneClean ==
  /\ provider.op = "onSave"
  /\ Len(provider.before) = 2
  /\ \E i, j \in 1..2 :
       /\ provider.before[i].dirty /\ ~provider.before[i].empty
       /\ ~provider.before[j].dirty
       /\ provider.before[i].dim = provider.before[j].dim
       /\ Cardinality(written(provider.before[i])) = 1
       /\ written(provider.before[j]) = {}
       /\ ~provider.chunks[i].dirty /\ ~provider.chunks[j].dirty
  /\ Cardinality({i \in 1..Len(provider.log) : provider.log[i].kind = "writeChunk"}) = 1

\* The dimensions onSave saved: those with a chunk in the cache.
savedDimensions == {provider.before[i].dim : i \in 1..Len(provider.before)}

\* C14: whichever record writes throw, onSave calls the write of every dirty
\* chunk, every entity and every block of each saved dimension, writes the
\* actor list and the block list of the dimension, flushes the store last and
\* returns without throwing.
C14_SaveSurvivesFailures ==
  provider.op = "onSave" =>
    /\ \A i \in 1..Len(provider.before) :
         provider.before[i].dirty =>
           calls("writeChunk", provider.before[i].dim, provider.before[i].id) # {}
    /\ \A d \in savedDimensions :
         /\ \A i \in 1..Len(entitiesOf(d)) :
              calls(IF entitiesOf(d)[i].isPlayer THEN "writePlayer" ELSE "writeEntity",
                    d, entitiesOf(d)[i].id) # {}
         /\ \A i \in 1..Len(blocksOf(d)) : calls("writeBlock", d, blocksOf(d)[i]) # {}
         /\ calls("writeAvailableEntities", d, 0) # {}
         /\ calls("writeAvailableBlocks", d, 0) # {}
    /\ provider.log[Len(provider.log)].kind = "flush"
    /\ provider.flushed
    /\ ~provider.threw

\* A save in which the write of a chunk threw and a later chunk, a later
\* entity and a later block were written.
C14_WriteAfterFailure ==
  /\ provider.op = "onSave"
  /\ \E i, j, k, l \in 1..Len(provider.log) :
       /\ i < j /\ j < k /\ k < l
       /\ provider.log[i].kind = "writeChunk" /\ provider.log[i].result = "threw"
       /\ provider.log[j].kind = "writeChunk" /\ provider.log[j].result = "written"
       /\ provider.log[k].kind = "writeEntity" /\ provider.log[k].result = "written"
       /\ provider.log[l].kind = "writeBlock" /\ provider.log[l].result = "written"
  /\ \E i \in 1..Len(provider.log) :
       provider.log[i].kind = "writePlayer" /\ provider.log[i].result = "threw"

(***************************************************************************)
(* World.onTick.  tick holds the world: its dayTime, the server's current  *)
(* tick, the players of each dimension and what the last call did.         *)
(***************************************************************************)
\* Server ticks a behaviour can take.
MaxTicks == 2

\* Players a dimension can hold.
MaxPlayers == 1

\* Ticks in a day.
DayLength == 24000

\* Ticks between two SetTime broadcasts.
TimeSyncTicks == 500

\* Ticks in a minute.
MinuteTicks == 1200

\* world.properties.saveInterval, in minutes.
saveInterval == 1

\* The server ticks a behaviour can start from.
StartTicks == {0, TimeSyncTicks - 1, MinuteTicks - 1, 5 * MinuteTicks - 1}

\* world.getPlayers().length
playerCount(t) ==
  LET RECURSIVE sum(_)
      sum(D) == IF D = {} THEN 0
                ELSE LET d == CHOOSE x \in D : TRUE IN t.players[d] + sum(D \ {d})
  IN  sum(Dimensions)

\* The remainder operator a % b of the language: the result has the sign of a.
Remainder(a, b) == IF a >= 0 THEN a % b ELSE 0 - ((0 - a) % b)

\* onTick with the two early returns removed.
onTickAlways(t, pr, vetoed, fails) ==
  LET dayTime == IF t.doDayLightCycle THEN Remainder(t.dayTime + 1, DayLength)
                 ELSE t.dayTime
      sync == t.currentTick % TimeSyncTicks = 0
      save == t.currentTick # 0 /\ t.currentTick % (saveInterval * MinuteTicks) = 0
  IN  [tick |-> [t EXCEPT !.op = "onTick", !.due = FALSE,
                          !.signal = IF vetoed THEN "vetoed" ELSE "emitted",
                          !.dayTime = dayTime,
                          !.ticked = Dimensions,
                          !.packets = IF sync THEN <<[time |-> dayTime]>> ELSE <<>>],
       provider |-> IF save THEN onSave(pr, fails) ELSE pr]

\* World.onTick; vetoed says whether a listener cancels the WorldTickSignal.
onTick(t, pr, vetoed, fails) ==
  IF playerCount(t) = 0
    THEN [tick |-> [t EXCEPT !.op = "onTick", !.due = FALSE, !.signal = "none",
                             !.ticked = {}, !.packets = <<>>],
          provider |-> pr]
  ELSE IF vetoed
    THEN [tick |-> [t EXCEPT !.op = "onTick", !.due = FALSE, !.signal = "vetoed",
                             !.ticked = {}, !.packets = <<>>],
          provider |-> pr]
  ELSE onTickAlways(t, pr, vetoed, fails)

\* The server calls World.onTick once in each of its ticks.
WorldOnTick(vetoed, fails) ==
  /\ tick.due
  /\ tick' = onTick(tick, provider, vetoed, fails).tick
  /\ provider' = onTick(tick, provider, vetoed, fails).provider
  /\ UNCHANGED <<containerVars, player, level, probe>>

\* The server moves to its next tick.
ServerTick ==
  /\ tick.elapsed < MaxTicks
  /\ tick' = [tick EXCEPT !.op = "serverTick", !.due = TRUE,
                           !.currentTick = @ + 1, !.elapsed = @ + 1]
  /\ UNCHANGED <<containerVars, player, level, probe, provider>>

\* A player enters a dimension.
PlayerJoin(dimension) ==
  /\ tick.players[dimension] < MaxPlayers
  /\ tick' = [tick EXCEPT !.op = "join", !.players[dimension] = @ + 1]
  /\ UNCHANGED <<containerVars, player, level, probe, provider>>

\* A player leaves a dimension.
PlayerLeave(dimension) ==
  /\ tick.players[dimension] > 0
  /\ tick' = [tick EXCEPT !.op = "leave", !.players[dimension] = @ - 1]
  /\ UNCHANGED <<containerVars, player, level, probe, provider>>

InitTick ==
  /\ ContainerInit
  /\ player = NoPlayer /\ level = NoLevel /\ probe = NoProbe
  /\ provider = [NoSave EXCEPT
       !.chunks = <<[dim |-> "overworld", id |-> 1, dirty |-> TRUE, empty |-> FALSE]>>]
  /\ \E currentTick \in StartTicks, dayTime \in {0, DayLength - 1},
        doDayLightCycle \in BOOLEAN :
       tick = [op |-> "none", signal |-> "none", dayTime |-> dayTime,
               currentTick |-> currentTick, elapsed |-> 0, due |-> TRUE,
               doDayLightCycle |-> doDayLightCycle,
               players |-> [d \in Dimensions |-> 0],
               ticked |-> {}, packets |-> <<>>]

NextTick ==
  \/ \E vetoed \in BOOLEAN, fails \in SUBSET attempted(provider.chunks) :
       WorldOnTick(vetoed, fails)
  \/ ServerTick
  \/ \E dimension \in Dimensions : PlayerJoin(dimension)
  \/ \E dimension \in Dimensions : PlayerLeave(dimension)

SpecTick == InitTick /\ [][NextTick]_vars

\* C15: when no player is in any dimension or the world-tick signal is
\* vetoed, World.onTick leaves dayTime unchanged, ticks no dimension,
\* broadcasts no packet and does not ask the provider to save.
C15_IdleTickHasNoEffect ==
  [][(tick'.op = "onTick" /\ (playerCount(tick) = 0 \/ tick'.signal = "vetoed")) =>
       /\ tick'.dayTime = tick.dayTime
       /\ tick'.ticked = {}
       /\ tick'.packets = <<>>
       /\ provider' = provider]_vars

\* A vetoed tick at which the day would have advanced, the time would have
\* been broadcast and the world would have been saved.
C15_VetoedBusyTick ==
  /\ tick.op = "onTick"
  /\ tick.signal = "vetoed"
  /\ playerCount(tick) > 0
  /\ tick.doDayLightCycle
  /\ tick.currentTick # 0
  /\ tick.currentTick % TimeSyncTicks = 0
  /\ tick.currentTick % (saveInterval * MinuteTicks) = 0
  /\ provider.op # "onSave"

(***************************************************************************)
(* The containerId of the packets of Container.update and                  *)
(* Container.clearSlot.  Both build one packet object and send that object *)
(* to every occupant, in the iteration order of the occupants.             *)
(***************************************************************************)
\* Players that can view a container.
NumViewers == 3

Viewers == 1..NumViewers

ContainerIds == {"Inventory", "Armor"}

\* The occupants of a container in iteration order: no player twice.
OccupantOrders ==
  {o \in UNION {[1..n -> Viewers] : n \in 0..NumViewers} :
     \A i, j \in 1..Len(o) : i # j => o[i] # o[j]}

\* The condition under which the packet's containerId is set to None.
hidesId(identifier, entityContainer, owner, viewer) ==
  entityContainer /\ identifier = "Inventory" /\ viewer # owner

\* packet.containerId when the packet is sent to occupant i: set to None at
\* the first occupant that is not the owner, and never set back.
RECURSIVE idAt(_, _, _, _, _)
idAt(identifier, entityContainer, owner, occ, i) ==
  IF i = 0 THEN identifier
  ELSE IF hidesId(identifier, entityContainer, owner, occ[i]) THEN "None"
  ELSE idAt(identifier, entityContainer, owner, occ, i - 1)

\* The loop over the occupants of update() and of clearSlot(): what each
\* occupant receives.  With deferred the packet object is serialized after
\* the loop, otherwise inside player.send.
sendToOccupants(identifier, entityContainer, owner, occ, deferred) ==
  [i \in 1..Len(occ) |->
     [to |-> occ[i],
      containerId |-> idAt(identifier, entityContainer, owner, occ,
                           IF deferred THEN Len(occ) ELSE i)]]

\* update(player): a packet of its own for the one player.
sendToPlayer(identifier, entityContainer, owner, viewer) ==
  <<[to |-> viewer,
     containerId |-> IF hidesId(identifier, entityContainer, owner, viewer)
                       THEN "None" ELSE identifier]>>

SendPackets ==
  /\ probe.fn \in {"update", "clearSlot", "updatePlayer"}
  /\ ~probe.done
  /\ probe' = [probe EXCEPT
       !.done = TRUE,
       !.received =
          IF probe.fn = "updatePlayer"
            THEN sendToPlayer(probe.identifier, probe.entityContainer,
                              probe.owner, probe.player)
            ELSE sendToOccupants(probe.identifier, probe.entityContainer,
                                 probe.owner, probe.occupants, probe.deferred)]
  /\ UNCHANGED <<containerVars, player, level, provider, tick>>

InitSend ==
  /\ ContainerInit
  /\ player = NoPlayer /\ level = NoLevel /\ provider = NoProvider /\ tick = NoTick
  /\ \E fn \in {"update", "clearSlot", "updatePlayer"}, identifier \in ContainerIds,
        entityContainer \in BOOLEAN, owner \in Viewers, occ \in OccupantOrders,
        viewer \in Viewers, deferred \in BOOLEAN :
       probe = [fn |-> fn, identifier |-> identifier, entityContainer |-> entityContainer,
                owner |-> owner, occupants |-> occ, player |-> viewer,
                deferred |-> deferred, done |-> FALSE, received |-> <<>>]

NextSend == SendPackets

SpecSend == InitSend /\ [][NextSend]_vars

\* C16: when update(), clearSlot() or update(player) sends the packet of an
\* entity's Inventory container, the owner receives it with the container's
\* identifier and every other player receives it with None.
C16_OwnerSeesOwnId ==
  (/\ probe.fn \in {"update", "clearSlot", "updatePlayer"}
   /\ probe.done
   /\ probe.entityContainer
   /\ probe.identifier = "Inventory") =>
    \A i \in 1..Len(probe.received) :
      probe.received[i].containerId =
        IF probe.received[i].to = probe.owner THEN probe.identifier ELSE "None"

(***************************************************************************)
(* ItemStackRequestHandler.handle: the other actions of a request.  The    *)
(* slot numbers come from the client.                                      *)
(***************************************************************************)
\* Largest slot number a client sends.
MaxRawSlot == 2

RawSlots == 0..MaxRawSlot

\* Largest amount a client asks for.
MaxRequestAmount == 2

RequestAmounts == 1..MaxRequestAmount

\* A stack no slot holds is collected.
release(h, s) ==
  IF \E c \in Containers : \E i \in 1..Len(h.storage[c]) : h.storage[c][i] = s
    THEN h ELSE collect(h, s)

\* The drop action: player.dropItem takes the amount out of the slot and
\* spawns it as an item entity.
dropRequest(h, c, rawSlot, n) ==
  LET slot == rawSlot % Len(h.storage[c])
      r == takeItem(h, c, slot, n)
  IN  IF r.ret = Null THEN r.h ELSE collect(r.h, r.ret)

\* The swap action.
swapRequest(h, source, rawSlot, destination, rawDestination) ==
  LET sourceSlot      == rawSlot % Len(h.storage[source])
      destinationSlot == rawDestination % Len(h.storage[destination])
  IN  IF getItem(h, source, sourceSlot) = Null THEN h
      ELSE IF getItem(h, destination, destinationSlot) = Null THEN h
      ELSE swapItems(h, source, sourceSlot, destinationSlot, destination)

\* The destroy-or-consume action.
destroyOrConsume(h, c, rawSlot) ==
  IF c = "cursor" THEN clearSlot(h, "cursor", 0)
  ELSE clearSlot(h, "inventory", rawSlot % Len(h.storage["inventory"]))

\* The craft-recipe action with one resultant.
craftRecipe(h, destination, t, n) ==
  LET cr == create(h, t, 1, 0, FALSE)
      h1 == setAmount(cr.h, cr.id, 1 * n)
  IN  release(addItem(h1, destination, cr.id).h, cr.id)

\* The craft-creative action: the slot of the destination is used as sent.
craftCreative(h, c, rawSlot, t, n) ==
  LET cr == create(h, t, 1, 0, FALSE)
      h1 == [cr.h EXCEPT !.amount[cr.id] = n]
  IN  release(setItem(h1, c, rawSlot, cr.id), cr.id)

\* A cancelled PlayerContainerInteractionSignal ends the action with an
\* update for the player and no change to a container.
DropRequest(c, rawSlot, n, cancelled) ==
  /\ Commit(IF cancelled THEN Heap ELSE dropRequest(Heap, c, rawSlot, n), NoCall)
  /\ UNCHANGED <<occupants, openedContainer, tasks, run, extVars>>

SwapRequest(source, rawSlot, destination, rawDestination, cancelled) ==
  /\ Commit(IF cancelled THEN Heap
            ELSE swapRequest(Heap, source, rawSlot, destination, rawDestination), NoCall)
  /\ UNCHANGED <<occupants, openedContainer, tasks, run, extVars>>

DestroyOrConsume(c, rawSlot) ==
  /\ Commit(destroyOrConsume(Heap, c, rawSlot), NoCall)
  /\ UNCHANGED <<occupants, openedContainer, tasks, run, extVars>>

CraftRecipe(destination, t, n) ==
  /\ alive # Stacks
  /\ Commit(craftRecipe(Heap, destination, t, n), NoCall)
  /\ UNCHANGED <<occupants, openedContainer, tasks, run, extVars>>

CraftCreative(c, rawSlot, t, n) ==
  /\ alive # Stacks
  /\ Commit(craftCreative(Heap, c, rawSlot, t, n), NoCall)
  /\ UNCHANGED <<occupants, openedContainer, tasks, run, extVars>>

InitRequest == ContainerInit /\ ExtInit

NextRequest ==
  \/ \E s \in Stacks : Discard(s)
  \/ \E c \in Containers, oc \in Containers, n \in RequestAmounts :
       \E slot \in RawSlots, oslot \in RawSlots : TakeOrPlace(c, slot, oc, oslot, n)
  \/ \E c \in Containers, slot \in RawSlots, n \in RequestAmounts, cancelled \in BOOLEAN :
       DropRequest(c, slot, n, cancelled)
  \/ \E c \in Containers, oc \in Containers, cancelled \in BOOLEAN :
       \E slot \in RawSlots, oslot \in RawSlots : SwapRequest(c, slot, oc, oslot, cancelled)
  \/ \E c \in Containers, slot \in RawSlots : DestroyOrConsume(c, slot)
  \/ \E c \in Containers, n \in RequestAmounts : CraftRecipe(c, "stone", n)
  \/ \E c \in Containers, slot \in RawSlots, n \in RequestAmounts :
       CraftCreative(c, slot, "stone", n)

SpecRequest == InitRequest /\ [][NextRequest]_vars

\* C17: in every state reached by container methods and ItemStackRequest
\* actions, the length of a container's storage is its constructed size.
C17_StorageLengthConstant ==
  \A c \in Containers : Len(storage[c]) = size(c)

(***************************************************************************)
(* ItemStack.equals as a function of two stacks.                           *)
(***************************************************************************)
\* Keys of the dynamic properties of a compared stack.
EntryKeys == {"owner", "lore"}

\* Map.entries() of the dynamic properties: <<key, value>> pairs in
\* insertion order, no key twice.
PropertyMaps ==
  {m \in UNION {[1..n -> EntryKeys \X PropValues] : n \in 0..Cardinality(EntryKeys)} :
     \A i, j \in 1..Len(m) : i # j => m[i][1] # m[j][1]}

\* The stacks compared.
StackValues ==
  [type : Types, metadata : {0, 1}, amount : {1, 2},
   dynamicProperties : PropertyMaps,
   traits : SUBSET {"custom"},
   nbt : {{}, {<<"Damage", 0>>}}]

\* The heap holding a as object 1 and b as object 2.
pairHeap(a, b) ==
  [type |-> <<a.type, b.type>>, metadata |-> <<a.metadata, b.metadata>>,
   amount |-> <<a.amount, b.amount>>,
   dynamicProperties |-> <<a.dynamicProperties, b.dynamicProperties>>,
   traits |-> <<a.traits, b.traits>>, nbt |-> <<a.nbt, b.nbt>>]

Equals ==
  /\ probe.fn = "equals"
  /\ ~probe.done
  /\ probe' = [probe EXCEPT
       !.done = TRUE,
       !.ab = equals(pairHeap(probe.a, probe.b), 1, 2),
       !.ba = equals(pairHeap(probe.a, probe.b), 2, 1),
       !.aa = equals(pairHeap(probe.a, probe.a), 1, 2)]
  /\ UNCHANGED <<containerVars, player, level, provider, tick>>

InitEquals ==
  /\ ContainerInit
  /\ player = NoPlayer /\ level = NoLevel /\ provider = NoProvider /\ tick = NoTick
  /\ \E a \in StackValues, b \in StackValues :
       probe = [fn |-> "equals", a |-> a, b |-> b, done |-> FALSE,
                ab |-> FALSE, ba |-> FALSE, aa |-> FALSE]

NextEquals == Equals

SpecEquals == InitEquals /\ [][NextEquals]_vars

\* The mapping a sequence of entries stands for.
mapping(entries) == {entries[i] : i \in 1..Len(entries)}

\* C18: A.equals(B) is true exactly when type, metadata, the dynamic
\* property mapping (whatever the insertion order), the trait identifiers and
\* the NBT tags match, whatever the amounts; equals is reflexive and symmetric.
C18_EqualsIsStructural ==
  (probe.fn = "equals" /\ probe.done) =>
    /\ probe.ab <=>
         /\ probe.a.type = probe.b.type
         /\ probe.a.metadata = probe.b.metadata
         /\ mapping(probe.a.dynamicProperties) = mapping(probe.b.dynamicProperties)
         /\ probe.a.traits = probe.b.traits
         /\ probe.a.nbt = probe.b.nbt
    /\ probe.aa
    /\ probe.ab <=> probe.ba

(***************************************************************************)
(* ItemStack.getDataEntry and ItemStack.loadDataEntry.                     *)
(***************************************************************************)
\* ItemStack.getDataEntry
getDataEntry(h, item) ==
  [identifier |-> h.type[item], amount |-> h.amount[item],
   metadata |-> h.metadata[item],
   dynamicProperties |-> h.dynamicProperties[item],
   traits |-> h.traits[item],
   nbtProperties |-> h.nbt[item]]

\* The loop that adds the entry's dynamic properties the stack does not have.
RECURSIVE loadProperties(_, _, _)
loadProperties(props, entries, i) ==
  IF i > Len(entries) THEN props
  ELSE loadProperties(
         IF \E j \in 1..Len(props) : props[j][1] = entries[i][1]
           THEN props ELSE MapSet(props, entries[i][1], entries[i][2]),
         entries, i + 1)

\* The loop that adds the entry's traits the palette knows.
RECURSIVE loadTraits(_, _, _, _)
loadTraits(h, item, ids, palette) ==
  IF ids = {} THEN h
  ELSE LET id == CHOOSE x \in ids : TRUE
       IN  loadTraits(IF id \in palette THEN addTrait(h, item, id) ELSE h,
                      item, ids \ {id}, palette)

\* A loadDataEntry that leaves the amount and the metadata of the stack alone.
loadDataEntryPartly(h, item, entry, overwrite, palette) ==
  IF entry.identifier # h.type[item] THEN [h |-> h, threw |-> TRUE]
  ELSE LET h1 == IF overwrite
                   THEN [h EXCEPT !.dynamicProperties[item] = <<>>, !.traits[item] = {}]
                   ELSE h
           h3 == [h1 EXCEPT !.dynamicProperties[item] =
                               loadProperties(@, entry.dynamicProperties, 1)]
           h4 == loadTraits(h3, item, entry.traits, palette)
       IN  [h |-> [h4 EXCEPT !.nbt[item] = nbtAdd(@, entry.nbtProperties)],
            threw |-> FALSE]

\* ItemStack.loadDataEntry(world, entry, overwrite); palette is
\* world.itemPalette.traits.
loadDataEntry(h, item, entry, overwrite, palette) ==
  IF entry.identifier # h.type[item] THEN [h |-> h, threw |-> TRUE]
  ELSE LET h1 == IF overwrite
                   THEN [h EXCEPT !.dynamicProperties[item] = <<>>, !.traits[item] = {}]
                   ELSE h
           h2 == [h1 EXCEPT !.amount[item] = entry.amount,
                            !.metadata[item] = entry.metadata]
           h3 == [h2 EXCEPT !.dynamicProperties[item] =
                               loadProperties(@, entry.dynamicProperties, 1)]
           h4 == loadTraits(h3, item, entry.traits, palette)
       IN  [h |-> [h4 EXCEPT !.nbt[item] = nbtAdd(@, entry.nbtProperties)],
            threw |-> FALSE]

\* The heap with the stack s as object 1.
heapOf(s) ==
  [Heap EXCEPT !.alive = {1}, !.type[1] = s.type, !.amount[1] = s.amount,
               !.metadata[1] = s.metadata,
               !.dynamicProperties[1] = s.dynamicProperties,
               !.traits[1] = s.traits, !.nbt[1] = s.nbt]

\* A fresh stack of the type of s loads the data entry of s.
LoadDataEntry ==
  /\ probe.fn = "loadDataEntry"
  /\ ~probe.done
  /\ LET cr == create(heapOf(probe.s), probe.s.type, 1, 0, probe.world)
         r  == loadDataEntry(cr.h, cr.id, getDataEntry(cr.h, 1),
                             probe.overwrite, probe.palette)
     IN  probe' = [probe EXCEPT
           !.done = TRUE,
           !.threw = r.threw,
           !.loaded = [type |-> r.h.type[cr.id], amount |-> r.h.amount[cr.id],
                       metadata |-> r.h.metadata[cr.id],
                       dynamicProperties |-> r.h.dynamicProperties[cr.id],
                       traits |-> r.h.traits[cr.id], nbt |-> r.h.nbt[cr.id]]]
  /\ UNCHANGED <<containerVars, player, level, provider, tick>>

InitLoad ==
  /\ ContainerInit
  /\ player = NoPlayer /\ level = NoLevel /\ provider = NoProvider /\ tick = NoTick
  /\ \E s \in StackValues, w \in BOOLEAN, overwrite \in BOOLEAN,
        palette \in SUBSET TraitIds :
       probe = [fn |-> "loadDataEntry", s |-> s, world |-> w,
                overwrite |-> overwrite, palette |-> palette,
                done |-> FALSE, threw |-> FALSE, loaded |-> s]

NextLoad == LoadDataEntry

SpecLoad == InitLoad /\ [][NextLoad]_vars

\* C19: a fresh stack of the type of S that loads S.getDataEntry() with
\* loadDataEntry has the amount, the metadata and the dynamic-property
\* mapping of S.
C19_LoadRestoresEntry ==
  (probe.fn = "loadDataEntry" /\ probe.done) =>
    /\ ~probe.threw
    /\ probe.loaded.amount = probe.s.amount
    /\ probe.loaded.metadata = probe.s.metadata
    /\ mapping(probe.loaded.dynamicProperties) = mapping(probe.s.dynamicProperties)

\* A loaded stack whose amount, metadata and dynamic properties are not
\* those a fresh stack has.
C19_LoadedNonDefault ==
  /\ probe.fn = "loadDataEntry"
  /\ probe.done
  /\ probe.s.amount = 2
  /\ probe.s.metadata = 1
  /\ Len(probe.s.dynamicProperties) = 2
  /\ probe.loaded.amount = 2
  /\ Len(probe.loaded.dynamicProperties) = 2

(***************************************************************************)
(* LevelDBProvider.writeEntity / readEntity and writePlayer / readPlayer:  *)
(* the entry is stored as JSON text.  A string is a sequence of pieces; a  *)
(* JSON value is a number or a string.                                     *)
(***************************************************************************)
\* Largest big integer in an entry.
MaxBigInt == 2

BigInts == (0 - MaxBigInt)..MaxBigInt

\* The strings a value of an entry can be.
Strings ==
  {<<"steve">>, <<"Infinity_t">>, <<"-Infinity_t">>, <<"NaN_t">>,
   <<"1", "BigInt_t">>, <<"steve", "BigInt_t">>, <<"BigInt_t">>}

\* A value of an entry: a number or big integer n, or a string s.
Number(kind, n) == [kind |-> kind, n |-> n, s |-> <<>>]

String(s) == [kind |-> "string", n |-> 0, s |-> s]

\* The values an entry can hold.
EntryValues ==
  {Number("bigint", n) : n \in BigInts}
    \cup {Number("number", n) : n \in {0, 1}}
    \cup {Number(k, 0) : k \in {"Infinity", "-Infinity", "NaN"}}
    \cup {String(s) : s \in Strings}

\* The replacer of JSON.stringify in writeEntity and writePlayer, followed
\* by the serialization of the value it returns: a JSON string or number.
stringifyValue(value) ==
  IF value.kind = "bigint" THEN String(<<ToString(value.n), "BigInt_t">>)
  ELSE IF value.kind = "Infinity" THEN String(<<"Infinity_t">>)
  ELSE IF value.kind = "-Infinity" THEN String(<<"-Infinity_t">>)
  ELSE IF value.kind = "NaN" THEN String(<<"NaN_t">>)
  ELSE value

\* BigInt(text): the integer the text spells, 0 for the empty text; any
\* other text throws a SyntaxError.
parsesAsBigInt(text) ==
  \/ text = <<>>
  \/ Len(text) = 1 /\ \E n \in BigInts : ToString(n) = text[1]

toBigInt(text) ==
  IF text = <<>> THEN 0 ELSE CHOOSE n \in BigInts : ToString(n) = text[1]

\* The reviver of JSON.parse in readEntity and readPlayer.
parseValue(text) ==
  IF text.kind = "string" /\ text.s # <<>> /\ text.s[Len(text.s)] = "BigInt_t"
    THEN LET digits == SubSeq(text.s, 1, Len(text.s) - 1)
         IN  IF parsesAsBigInt(digits)
               THEN [threw |-> FALSE, value |-> Number("bigint", toBigInt(digits))]
               ELSE [threw |-> TRUE, value |-> text]
  ELSE IF text.kind = "string" /\ text.s = <<"Infinity_t">>
    THEN [threw |-> FALSE, value |-> Number("Infinity", 0)]
  ELSE IF text.kind = "string" /\ text.s = <<"-Infinity_t">>
    THEN [threw |-> FALSE, value |-> Number("-Infinity", 0)]
  ELSE IF text.kind = "string" /\ text.s = <<"NaN_t">>
    THEN [threw |-> FALSE, value |-> Number("NaN", 0)]
  ELSE [threw |-> FALSE, value |-> text]

EntryFields == {"uniqueId", "identifier", "value"}

\* JSON.stringify(entry, replacer)
stringify(entry) == [f \in EntryFields |-> stringifyValue(entry[f])]

\* JSON.parse(text, reviver)
parse(text) ==
  [threw |-> \E f \in EntryFields : parseValue(text[f]).threw,
   entry |-> [f \in EntryFields |-> parseValue(text[f]).value]]

\* readEntity after writeEntity; listed says whether the actor list of the
\* dimension holds the unique id.
readEntity(entry, listed) ==
  IF ~listed THEN [outcome |-> "threw", entry |-> entry]
  ELSE LET r == parse(stringify(entry))
       IN  [outcome |-> IF r.threw THEN "threw" ELSE "returned", entry |-> r.entry]

\* readPlayer after writePlayer: a failure to read gives null.
readPlayer(entry) ==
  LET r == parse(stringify(entry))
  IN  [outcome |-> IF r.threw THEN "null" ELSE "returned", entry |-> r.entry]

WriteThenRead ==
  /\ probe.fn = "writeRead"
  /\ ~probe.done
  /\ LET r == IF probe.isPlayer THEN readPlayer(probe.entry)
              ELSE readEntity(probe.entry, probe.listed)
     IN  probe' = [probe EXCEPT !.done = TRUE, !.outcome = r.outcome, !.read = r.entry]
  /\ UNCHANGED <<containerVars, player, level, provider, tick>>

InitStore ==
  /\ ContainerInit
  /\ player = NoPlayer /\ level = NoLevel /\ provider = NoProvider /\ tick = NoTick
  /\ \E isPlayer \in BOOLEAN, listed \in BOOLEAN, uniqueId \in BigInts,
        value \in EntryValues :
       LET entry == [uniqueId |-> Number("bigint", uniqueId),
                     identifier |-> String(<<"minecraft:cow">>),
                     value |-> value]
       IN  probe = [fn |-> "writeRead", isPlayer |-> isPlayer, listed |-> listed,
                    entry |-> entry, done |-> FALSE, outcome |-> "none", read |-> entry]

NextStore == WriteThenRead

SpecStore == InitStore /\ [][NextStore]_vars

\* C20: for an entity whose unique id is in the actor list, readEntity after
\* writeEntity returns the entry written, and readPlayer after writePlayer
\* returns the player entry written; big integers, Infinity, -Infinity and
\* NaN are read back as the same values.
C20_StoredEntryReadsBack ==
  (probe.fn = "writeRead" /\ probe.done /\ (probe.isPlayer \/ probe.listed)) =>
    /\ probe.outcome = "returned"
    /\ probe.read = probe.entry

(***************************************************************************)
(* EntityItemStackTrait.onTick: the merge of item entities on the ground.  *)
(* level holds the item entities of a dimension; each entity runs its      *)
(* onTick as an async call that can be suspended at its awaits.            *)
(***************************************************************************)
\* Item entities in the dimension.
NumItems == 2

\* Ticks between two merge passes.
MergeInterval == 25

Items == 1..NumItems

\* The stack of an item entity.
itemStackOf(meta, amt) ==
  [type |-> "stone", metadata |-> meta, amount |-> amt,
   dynamicProperties |-> <<>>, traits |-> {}, nbt |-> {}]

\* dimension.getEntities().filter((x) => x.isItem()): the spawned items.
RECURSIVE itemEntities(_, _)
itemEntities(L, i) ==
  IF i > NumItems THEN <<>>
  ELSE (IF L.entities[i].spawned THEN <<i>> ELSE <<>>) \o itemEntities(L, i + 1)

\* The for loop of onTick from index i of the entities it listed, up to its
\* next await or its end.  increment has added the amount when it suspends.
RECURSIVE scan(_, _, _)
scan(L, e, i) ==
  LET me == L.entities[e]
  IN  IF i > Len(me.listed) THEN [L EXCEPT !.entities[e].pc = "done"]
      ELSE IF me.merging /\ i # Len(me.listed) THEN scan(L, e, i + 1)
      ELSE LET L1 == IF me.merging THEN [L EXCEPT !.entities[e].merging = FALSE] ELSE L
               o == me.listed[i]
               existingItem == L.entities[o].itemStack
           IN  IF o = e THEN scan(L1, e, i + 1)
               ELSE IF ~L.near THEN scan(L1, e, i + 1)
               ELSE IF existingItem.amount >= typeMaxAmount(existingItem.type)
                 THEN scan(L1, e, i + 1)
               ELSE IF ~equals(pairHeap(existingItem, me.itemStack), 1, 2)
                 THEN scan(L1, e, i + 1)
               ELSE [L1 EXCEPT !.entities[e].itemStack.amount = @ + existingItem.amount,
                               !.entities[e].pc = "increment",
                               !.entities[e].index = i,
                               !.entities[e].merged = Append(@, o)]

\* onTick up to its first await.
onTickStart(L, e) ==
  IF L.entities[e].onGround /\ L.currentTick % MergeInterval = 0
    THEN scan([L EXCEPT !.entities[e].listed = itemEntities(L, 1)], e, 1)
    ELSE [L EXCEPT !.entities[e].pc = "done"]

\* The dimension calls onTick of a spawned item entity once in a tick.
ItemOnTick(e) ==
  /\ level.type = "items"
  /\ level.entities[e].pc = "idle"
  /\ level.entities[e].spawned
  /\ level' = onTickStart(level, e)
  /\ UNCHANGED <<containerVars, player, probe, provider, tick>>

\* await this.increment(...) resumes: the packet is broadcast and
\* component.entity.despawn() is called.
ItemDespawnOther(e) ==
  /\ level.type = "items"
  /\ level.entities[e].pc = "increment"
  /\ level' = [level EXCEPT
       !.entities[level.entities[e].listed[level.entities[e].index]].spawned = FALSE,
       !.entities[e].pc = "despawn"]
  /\ UNCHANGED <<containerVars, player, probe, provider, tick>>

\* await component.entity.despawn() resumes: merging is set and the loop goes on.
ItemContinue(e) ==
  /\ level.type = "items"
  /\ level.entities[e].pc = "despawn"
  /\ level' = scan([level EXCEPT !.entities[e].merging = TRUE], e,
                   level.entities[e].index + 1)
  /\ UNCHANGED <<containerVars, player, probe, provider, tick>>

InitItems ==
  /\ ContainerInit
  /\ player = NoPlayer /\ probe = NoProbe /\ provider = NoProvider /\ tick = NoTick
  /\ \E currentTick \in {MergeInterval, MergeInterval + 1}, near \in BOOLEAN,
        onGround \in [Items -> BOOLEAN], meta \in [Items -> {0, 1}],
        amt \in [Items -> 1..MaxStack] :
       level = [type |-> "items", currentTick |-> currentTick, near |-> near,
                initial |-> amt,
                entities |-> [e \in Items |->
                  [spawned |-> TRUE, onGround |-> onGround[e],
                   itemStack |-> itemStackOf(meta[e], amt[e]),
                   merging |-> FALSE, pc |-> "idle", listed |-> <<>>,
                   index |-> 0, merged |-> <<>>]]]

NextItems ==
  \/ \E e \in Items : ItemOnTick(e)
  \/ \E e \in Items : ItemDespawnOther(e)
  \/ \E e \in Items : ItemContinue(e)

SpecItems == InitItems /\ [][NextItems]_vars

\* C21: when items 1 and 2 hold equal stacks and lie on the ground close to
\* each other on a merge tick, then once the onTick calls of the tick are
\* over exactly one of them is spawned and its amount is the sum of the two.
C21_MergeKeepsUnits ==
  (/\ level.type = "items"
   /\ level.currentTick % MergeInterval = 0
   /\ level.near
   /\ \A e \in {1, 2} : level.entities[e].onGround
   /\ equals(pairHeap(level.entities[1].itemStack, level.entities[2].itemStack), 1, 2)
   /\ \A e \in Items : level.entities[e].pc \in {"idle", "done"}
   /\ \A e \in Items : level.entities[e].spawned => level.entities[e].pc = "done") =>
    \E e \in {1, 2} :
      /\ level.entities[e].spawned
      /\ ~level.entities[3 - e].spawned
      /\ level.entities[e].itemStack.amount = level.initial[1] + level.initial[2]

(***************************************************************************)
(* Errors thrown by the hooks of use, useOnBlock and useOnEntity.          *)
(***************************************************************************)
\* C22: when the call of use, useOnBlock or useOnEntity returns, no trait
\* whose hook threw during the call is attached to the stack any more, the
\* hook of every trait of the pass was invoked, and the call has a result.
C22_ThrowingTraitIsRemoved ==
  run.pc = "done" =>
    /\ run.thrown \cap {run.traits[k] : k \in 1..Len(run.traits)} = {}
    /\ run.reached = run.all
    /\ run.result \in BOOLEAN

(***************************************************************************)
(* ItemStack.addTrait and removeTrait: each call runs up to its await of   *)
(* the hook (onAdd, onRemove) and resumes later; calls interleave at the   *)
(* awaits.                                                                 *)
(***************************************************************************)
\* Largest number of addTrait and removeTrait calls in flight.
MaxCalls == 2

\* Largest number of trait objects constructed.
MaxInstances == 3

TraitIdentifiers == {"durability", "food"}

TraitCalls == 1..MaxCalls

\* What a hook does: the trait has none, it returns, or it throws.
LifecycleResults == {"absent", "return", "throw"}

NoTraitCall == [op |-> "none", pc |-> "idle", id |-> "none", instance |-> 0,
                ret |-> 0, threw |-> FALSE, hooks |-> 0, existing |-> FALSE]

\* The try block of addTrait: the trait (the given object, or a new one when a
\* class is given: given = 0) is set in the map and its onAdd is called.
attachTrait(P, c, id, given, r) ==
  LET instance == IF given = 0 THEN P.next ELSE given
  IN  [P EXCEPT !.traits[id] = instance,
                !.next = IF given = 0 THEN @ + 1 ELSE @,
                !.identifier[instance] = id,
                !.onAdds[id] = @ + (IF r = "absent" THEN 0 ELSE 1),
                !.calls[c] = [NoTraitCall EXCEPT !.op = "addTrait", !.pc = "onAdd",
                                                 !.id = id, !.instance = instance,
                                                 !.threw = (r = "throw"),
                                                 !.hooks = IF r = "absent" THEN 0 ELSE 1]]

\* A variant of addTrait without the check for an attached trait.
addTraitUnchecked(P, c, id, given, r) == attachTrait(P, c, id, given, r)

\* addTrait up to its await. With the identifier attached it returns the
\* attached trait; otherwise it attaches the trait.
addTraitCall(P, c, id, given, r) ==
  IF P.traits[id] # 0
  THEN [P EXCEPT !.calls[c] = [NoTraitCall EXCEPT !.op = "addTrait", !.pc = "returned",
                                                  !.id = id, !.instance = P.traits[id],
                                                  !.ret = P.traits[id], !.existing = TRUE]]
  ELSE attachTrait(P, c, id, given, r)

\* removeTrait up to its await: the trait is looked up, its onRemove called.
removeTraitCall(P, c, id, r) ==
  LET instance == P.traits[id]
      called == instance # 0 /\ r # "absent"
  IN  [P EXCEPT !.calls[c] = [NoTraitCall EXCEPT !.op = "removeTrait", !.pc = "onRemove",
                                                 !.id = id, !.instance = instance,
                                                 !.threw = called /\ r = "throw",
                                                 !.hooks = IF called THEN 1 ELSE 0]]

\* The call resumes after the await. addTrait returns the trait, or null
\* from its catch clause when onAdd threw. removeTrait deletes the
\* identifier from the map; when onRemove threw the call is rejected at
\* the await and nothing after it runs.
resumeTrait(P, c) ==
  LET call == P.calls[c]
  IN  CASE call.op = "addTrait" ->
             [P EXCEPT !.calls[c].pc = "returned",
                       !.calls[c].ret = IF call.threw THEN 0 ELSE call.instance]
        [] call.threw ->
             [P EXCEPT !.calls[c].pc = "rejected"]
        [] OTHER ->
             [P EXCEPT !.traits[call.id] = 0, !.onAdds[call.id] = 0,
                       !.calls[c].pc = "returned"]

AddTraitStart(c, id, given, r) ==
  /\ probe.calls[c].pc = "idle"
  /\ IF given = 0 THEN probe.next <= MaxInstances
                  ELSE given < probe.next /\ probe.identifier[given] = id
  /\ probe' = addTraitCall(probe, c, id, given, r)
  /\ UNCHANGED <<containerVars, player, level, provider, tick>>

RemoveTraitStart(c, id, r) ==
  /\ probe.calls[c].pc = "idle"
  /\ probe' = removeTraitCall(probe, c, id, r)
  /\ UNCHANGED <<containerVars, player, level, provider, tick>>

ResumeTrait(c) ==
  /\ probe.calls[c].pc \in {"onAdd", "onRemove"}
  /\ probe' = resumeTrait(probe, c)
  /\ UNCHANGED <<containerVars, player, level, provider, tick>>

\* The caller takes the outcome of the call.
TraitCallOver(c) ==
  /\ probe.calls[c].pc \in {"returned", "rejected"}
  /\ probe' = [probe EXCEPT !.calls[c] = NoTraitCall]
  /\ UNCHANGED <<containerVars, player, level, provider, tick>>

InitTraits ==
  /\ ContainerInit
  /\ player = NoPlayer /\ level = NoLevel /\ provider = NoProvider /\ tick = NoTick
  /\ probe = [fn |-> "traits", traits |-> [id \in TraitIdentifiers |-> 0], next |-> 1,
              identifier |-> [k \in 1..MaxInstances |-> "none"],
              onAdds |-> [id \in TraitIdentifiers |-> 0],
              calls |-> [c \in TraitCalls |-> NoTraitCall]]

NextTraits ==
  \/ \E c \in TraitCalls, id \in TraitIdentifiers, given \in 0..MaxInstances,
        r \in LifecycleResults : AddTraitStart(c, id, given, r)
  \/ \E c \in TraitCalls, id \in TraitIdentifiers, r \in LifecycleResults :
       RemoveTraitStart(c, id, r)
  \/ \E c \in TraitCalls : ResumeTrait(c)
  \/ \E c \in TraitCalls : TraitCallOver(c)

SpecTraits == InitTraits /\ [][NextTraits]_vars

\* C23: a removeTrait call for an attached trait invokes its onRemove once,
\* with the trait still attached, and the call always returns (also when
\* onRemove threw) with no trait of that identifier left on the stack.
C23_RemoveDetaches ==
  [][\A c \in TraitCalls :
       /\ (probe.calls[c].pc = "idle" /\ probe'.calls[c].op = "removeTrait"
           /\ probe.traits[probe'.calls[c].id] # 0) =>
            /\ probe'.calls[c].hooks <= 1
            /\ probe'.traits[probe'.calls[c].id] = probe'.calls[c].instance
       /\ (probe.calls[c].pc = "onRemove" /\ probe'.calls[c].pc # "onRemove") =>
            /\ probe'.calls[c].pc = "returned"
            /\ probe'.traits[probe.calls[c].id] = 0]_vars

\* C24: addTrait for an identifier that is attached returns the attached
\* trait, calls no onAdd and leaves the trait map as it is; onAdd is called at
\* most once for an attached identifier, however the calls interleave.
C24_AddTraitIsIdempotent ==
  [][/\ \A id \in TraitIdentifiers : probe'.onAdds[id] <= 1
     /\ \A c \in TraitCalls :
          (probe.calls[c].pc = "idle" /\ probe'.calls[c].op = "addTrait"
           /\ probe.traits[probe'.calls[c].id] # 0) =>
            /\ probe'.traits = probe.traits
            /\ probe'.onAdds = probe.onAdds
            /\ probe'.calls[c].pc = "returned"
            /\ probe'.calls[c].ret = probe.traits[probe'.calls[c].id]]_vars

\* A second addTrait call has returned the attached trait while the first
\* call for that identifier is still suspended in onAdd.
C24_AddWhileAdding ==
  \E c, d \in TraitCalls :
    /\ c # d
    /\ probe.fn = "traits"
    /\ probe.calls[c].op = "addTrait" /\ probe.calls[c].pc = "onAdd"
    /\ probe.calls[d].op = "addTrait" /\ probe.calls[d].existing
    /\ probe.calls[d].id = probe.calls[c].id
    /\ probe.calls[d].ret = probe.calls[c].instance

(***************************************************************************)
(* LevelDBProvider.readChunk and its cache of Chunk objects. The function  *)
(* is synchronous: a call runs from its cache lookup to its return without *)
(* another call in between, so concurrent callers are calls in some order. *)
(***************************************************************************)
\* Largest number of Chunk objects constructed.
MaxChunkObjects == 5

\* The cache entry of a coordinate: 0 for none, else the Chunk object.
NoChunks == [op |-> "none", cache |-> [d \in Dimensions |-> [id \in ChunkIds |-> 0]],
             disk |-> {}, next |-> 1, reads |-> [d \in Dimensions |-> [id \in ChunkIds |-> 0]],
             dim |-> "none", id |-> 0, ret |-> 0, hit |-> FALSE, made |-> "none"]

\* hasChunk: the database holds the chunk.
hasChunk(P, dimension, id) == <<dimension, id>> \in P.disk

\* The branches of readChunk that make a Chunk object: it is read from the
\* database or made by the generator, and set in the cache.
readChunkUncached(P, dimension, id) ==
  [P EXCEPT !.op = "readChunk", !.dim = dimension, !.id = id,
            !.cache[dimension][id] = P.next,
            !.reads[dimension][id] = @ + 1,
            !.next = @ + 1, !.ret = P.next, !.hit = FALSE,
            !.made = IF hasChunk(P, dimension, id) THEN "database" ELSE "generator"]

\* A variant of readChunk that does not consult the cache.
readChunkAlways(P, dimension, id) == readChunkUncached(P, dimension, id)

\* readChunk(cx, cz, dimension)
readChunk(P, dimension, id) ==
  IF P.cache[dimension][id] # 0
  THEN [P EXCEPT !.op = "readChunk", !.dim = dimension, !.id = id,
                 !.ret = P.cache[dimension][id], !.hit = TRUE]
  ELSE readChunkUncached(P, dimension, id)

ReadChunkCall(dimension, id) ==
  /\ provider.next <= MaxChunkObjects
  /\ provider' = readChunk(provider, dimension, id)
  /\ UNCHANGED <<containerVars, player, level, probe, tick>>

InitChunks ==
  /\ ContainerInit
  /\ player = NoPlayer /\ level = NoLevel /\ probe = NoProbe /\ tick = NoTick
  /\ \E disk \in SUBSET (Dimensions \X ChunkIds) :
       provider = [NoChunks EXCEPT !.disk = disk]

NextChunks == \E dimension \in Dimensions, id \in ChunkIds : ReadChunkCall(dimension, id)

SpecChunks == InitChunks /\ [][NextChunks]_vars

\* C25: a cache entry is never replaced, a chunk is read from the database or
\* generated at most once for a coordinate, readChunk returns the cached
\* object of its coordinate, and no object is cached for two coordinates.
C25_OneChunkPerCoordinate ==
  [][/\ \A d \in Dimensions, id \in ChunkIds :
          /\ provider.cache[d][id] # 0 => provider'.cache[d][id] = provider.cache[d][id]
          /\ provider'.reads[d][id] <= 1
          /\ \A e \in Dimensions, jd \in ChunkIds :
               (provider'.cache[d][id] # 0 /\ provider'.cache[d][id] = provider'.cache[e][jd])
                 => (d = e /\ id = jd)
     /\ provider'.ret = provider'.cache[provider'.dim][provider'.id]]_vars

\* readChunk was called for a coordinate whose chunk was in the cache.
C25_CachedChunkReadAgain ==
  /\ provider.op = "readChunk"
  /\ provider.hit
  /\ provider.reads[provider.dim][provider.id] = 1
  /\ provider.next > 2

(***************************************************************************)
(* Container.addItem onto a slot that holds an equal stack.                *)
(***************************************************************************)
\* C26: addItem of a stackable stack below maxAmount into a container with a
\* slot holding an equal stack below maxAmount moves
\* min(maxAmount - existing, incoming) units into that slot, fills no empty
\* slot, and leaves the slot with at most maxAmount.
C26_AddItemFillsSlotFirst ==
  [][last'.op = "addItem" => \A c \in Containers, s \in Stacks :
       (/\ AddItem(c, s)
        /\ findSlot(Heap, c, s) > -1
        /\ storage[c][findSlot(Heap, c, s) + 1] # s
        /\ isStackable(Heap, s)
        /\ amount[s] < maxAmount(Heap, s)) =>
         LET existingItem == storage[c][findSlot(Heap, c, s) + 1]
             moved == Min(maxAmount(Heap, s) - amount[existingItem], amount[s])
         IN  /\ amount'[existingItem] = amount[existingItem] + moved
             /\ amount'[s] = amount[s] - moved
             /\ amount'[existingItem] <= maxAmount(Heap, s)
             /\ \A i \in 1..size(c) : storage[c][i] = Null => storage'[c][i] = Null]_vars

\* An addItem has filled the stack of a slot to maxAmount and left units of
\* the incoming stack outside the container.
C26_SlotFilledRestLeft ==
  /\ last.op = "addItem"
  /\ last.ret # Null
  /\ amount[last.ret] = maxAmount(Heap, last.ret)
  /\ slotsOf(storage, last.ret) # {}
  /\ \E s \in alive :
       /\ s # last.ret
       /\ slotsOf(storage, s) = {}
       /\ amount[s] > 0
       /\ equals(Heap, s, last.ret)

(***************************************************************************)
(* The slot a call writes: setItem, and the calls that bring an amount to  *)
(* 0 (setAmount, decrement, removeItem). Each call records its name and    *)
(* its stack.                                                              *)
(***************************************************************************)
SetItemCall(c, slot, s) ==
  /\ s \in alive
  /\ Commit(setItem(Heap, c, slot, s), [NoCall EXCEPT !.op = "setItem", !.ret = s])
  /\ UNCHANGED <<occupants, openedContainer, tasks, run, extVars>>

SetAmountCall(s, n) ==
  /\ s \in alive
  /\ Commit(setAmount(Heap, s, n), [NoCall EXCEPT !.op = "setAmount", !.ret = s])
  /\ UNCHANGED <<occupants, openedContainer, tasks, run, extVars>>

\* decrement(n) by a caller that takes no more than the stack holds.
DecrementCall(s, n) ==
  /\ s \in alive
  /\ n <= amount[s]
  /\ Commit(decrement(Heap, s, n), [NoCall EXCEPT !.op = "decrement", !.ret = s])
  /\ UNCHANGED <<occupants, openedContainer, tasks, run, extVars>>

RemoveItemCall(c, slot, n) ==
  /\ LET r == removeItem(Heap, c, slot, n)
     IN  Commit(r.h, [NoCall EXCEPT !.op = "removeItem", !.ret = r.ret])
  /\ UNCHANGED <<occupants, openedContainer, tasks, run, extVars>>

NextSlots ==
  \/ \E t \in Types, n \in 1..MaxStack : Create(t, n)
  \/ \E s \in Stacks : Discard(s)
  \/ \E c \in Containers, s \in Stacks : \E slot \in Slots(c) : SetItemCall(c, slot, s)
  \/ \E s \in Stacks, n \in 0..MaxStack : SetAmountCall(s, n)
  \/ \E s \in Stacks, n \in 1..MaxStack : DecrementCall(s, n)
  \/ \E c \in Containers, n \in 1..MaxStack : \E slot \in Slots(c) : RemoveItemCall(c, slot, n)
  \/ \E c \in Containers : \E slot \in Slots(c) : ClearSlot(c, slot)

SpecSlots == Init /\ [][NextSlots]_vars

\* C27: after setItem(slot, item) the slot holds the item when its amount is
\* not 0 and null when its amount is 0, and every other slot is as before.
C27_SetItemWritesOneSlot ==
  [][last'.op = "setItem" => \A c \in Containers : \A slot \in Slots(c) :
       SetItemCall(c, slot, last'.ret) =>
         /\ storage'[c][slot + 1] = (IF amount[last'.ret] # 0 THEN last'.ret ELSE Null)
         /\ \A oc \in Containers : \A i \in 1..size(oc) :
              (oc # c \/ i # slot + 1) => storage'[oc][i] = storage[oc][i]]_vars

\* setItem was called with a stack of amount 0 and the stack is in no slot.
C27_EmptyStackSet ==
  /\ last.op = "setItem"
  /\ last.ret \in alive
  /\ amount[last.ret] = 0
  /\ container[last.ret] # NoContainer
  /\ slotsOf(storage, last.ret) = {}

\* C28: when setAmount, decrement or removeItem brings the amount of a stored
\* stack to 0, every slot that held the stack is null afterwards and every
\* other slot is as before.
C28_EmptyStackLeavesSlot ==
  [][(/\ last'.op \in {"setAmount", "decrement", "removeItem"}
      /\ last'.ret # Null
      /\ amount[last'.ret] > 0
      /\ amount'[last'.ret] = 0) =>
       \A c \in Containers : \A i \in 1..size(c) :
         storage'[c][i] = (IF storage[c][i] = last'.ret THEN Null ELSE storage[c][i])]_vars

(***************************************************************************)
(* ItemStackRequestHandler.handle with a packet of several take-or-place   *)
(* actions. Promise.all starts every action; an action runs until it       *)
(* awaits and the others run in between: after the signal it reads its     *)
(* slots and enters takeItem (the decrement of the source), after the      *)
(* await in takeItem it makes the new stack, and after takeItem it writes  *)
(* the destination.                                                        *)
(***************************************************************************)
\* Number of actions in the packet.
NumActions == 2

PacketActions == 1..NumActions

\* The slots of the player's containers.
SlotRefs == {<<c, slot>> : c \in Containers, slot \in 0..(Size - 1)} \cap
            UNION {{<<c, slot>> : slot \in Slots(c)} : c \in Containers}

\* The heap with stack 1 of the given amount stored in slot ref.
packetHeap(ref, amt) ==
  [alive |-> {1},
   type |-> [s \in Objects |-> "stone"],
   amount |-> [s \in Objects |-> IF s = 1 THEN amt ELSE 0],
   metadata |-> [s \in Objects |-> 0],
   container |-> [s \in Objects |-> IF s = 1 THEN ref[1] ELSE NoContainer],
   world |-> [s \in Objects |-> FALSE],
   traits |-> [s \in Objects |-> {}],
   dynamicProperties |-> [s \in Objects |-> <<>>],
   nbt |-> [s \in Objects |-> {}],
   storage |-> [c \in Containers |->
                  [i \in 1..size(c) |-> IF c = ref[1] /\ i = ref[2] + 1 THEN 1 ELSE Null]],
   sent |-> <<>>, oom |-> FALSE]

\* F applied to the value of v, which is computed once.
With(v, F(_)) == CHOOSE r \in {F(x) : x \in {v}} : TRUE

\* The stacks a slot holds or a running action refers to are kept; the
\* others are collected.
RECURSIVE sweep(_, _, _)
sweep(h, refs, s) ==
  IF s = 0 THEN h
  ELSE With(IF s \in h.alive /\ s \notin refs /\ slotsOf(h.storage, s) = {}
            THEN collect(h, s) ELSE h,
            LAMBDA x : sweep(x, refs, s - 1))

\* What the containers hold: type and amount of the stack of every slot.
contents(h) ==
  [c \in Containers |->
     [i \in 1..Len(h.storage[c]) |->
        IF h.storage[c][i] = Null THEN <<>>
        ELSE <<h.type[h.storage[c][i]], h.amount[h.storage[c][i]]>>]]

\* The stacks the running actions refer to.
heldBy(actions) ==
  UNION {{actions[i].sourceItem, actions[i].destinationItem, actions[i].newItem}
           : i \in 1..Len(actions)} \ {Null}

\* The action up to the await in takeItem: the signal is emitted; unless it
\* is cancelled the source and destination items are read, and takeItem
\* decrements the source item by the amount.
actionRead(h, a) ==
  LET sourceSlot      == a.slot % Len(h.storage[a.source])
      destinationSlot == a.dslot % Len(h.storage[a.destination])
      sourceItem      == getItem(h, a.source, sourceSlot)
      destinationItem == getItem(h, a.destination, destinationSlot)
  IN  IF a.vetoed \/ sourceItem = Null \/ ~(a.amount <= h.amount[sourceItem])
      THEN [h |-> h, a |-> [a EXCEPT !.pc = "done"]]
      ELSE [h |-> decrement(h, sourceItem, Min(a.amount, h.amount[sourceItem])),
            a |-> [a EXCEPT !.pc = "take", !.sourceItem = sourceItem,
                            !.destinationItem = destinationItem,
                            !.removed = Min(a.amount, h.amount[sourceItem])]]

\* The rest of takeItem: the slot is cleared when the item's amount is 0, the
\* new stack is created with the removed amount, the container updated.
actionTake(h, a) ==
  LET item == a.sourceItem
      h1 == IF h.amount[item] = 0
            THEN clearSlot(h, a.source, a.slot % Len(h.storage[a.source])) ELSE h
      cr == create(h1, h.type[item], a.removed, h.metadata[item], h.world[item])
      h2 == [cr.h EXCEPT !.dynamicProperties[cr.id] = h.dynamicProperties[item]]
      h3 == update(h2, a.source)
      h4 == [h3 EXCEPT !.nbt[cr.id] = nbtAdd(@, h.nbt[item])]
  IN  [h |-> h4, a |-> [a EXCEPT !.pc = "place", !.newItem = cr.id]]

\* After takeItem: the destination item read before is incremented, or the
\* new stack is set in the destination slot and the cursor slot cleared.
actionPlace(h, a) ==
  LET destinationSlot == a.dslot % Len(h.storage[a.destination])
      h1 == IF a.destinationItem # Null
            THEN increment(h, a.destinationItem, h.amount[a.newItem])
            ELSE LET h2 == setItem(h, a.destination, destinationSlot, a.newItem)
                 IN  IF getItem(h2, "cursor", 0) = Null
                     THEN clearSlot(h2, "cursor", 0) ELSE h2
  IN  [h |-> h1, a |-> [a EXCEPT !.pc = "done", !.sourceItem = Null,
                                 !.destinationItem = Null, !.newItem = Null]]

\* One action of the packet from start to end, with nothing in between.
applyAction(h, a) ==
  With(actionRead(h, a), LAMBDA r1 :
    IF r1.a.pc = "done" THEN r1.h
    ELSE With(actionTake(r1.h, r1.a), LAMBDA r2 :
           With(actionPlace(r2.h, r2.a), LAMBDA r3 :
             sweep(r3.h, {}, NumStacks + 1))))

\* The actions of the packet applied one after another, in packet order.
RECURSIVE applyInOrder(_, _, _)
applyInOrder(h, actions, i) ==
  IF i > Len(actions) THEN h
  ELSE With(applyAction(h, actions[i]), LAMBDA x : applyInOrder(x, actions, i + 1))

\* The state after a step of action i that left the heap r.h.
PacketCommit(r, i) ==
  LET actions == [probe.actions EXCEPT ![i] = r.a]
      h == With(r.h, LAMBDA x : sweep(x, heldBy(actions), NumStacks + 1))
  IN  /\ ~r.h.oom
      /\ \A s \in Objects : h.amount[s] \in 0..AmountCap
      /\ alive' = h.alive
      /\ type' = h.type
      /\ amount' = h.amount
      /\ metadata' = h.metadata
      /\ container' = h.container
      /\ world' = h.world
      /\ traits' = h.traits
      /\ dynamicProperties' = h.dynamicProperties
      /\ nbt' = h.nbt
      /\ storage' = h.storage
      /\ probe' = [probe EXCEPT !.actions = actions]
      /\ UNCHANGED <<sent, last, occupants, openedContainer, tasks, run,
                     player, level, provider, tick>>

ActionRead(i) ==
  /\ probe.actions[i].pc = "start"
  /\ \A j \in 1..(i - 1) : probe.actions[j].pc # "start"
  /\ PacketCommit(actionRead(Heap, probe.actions[i]), i)

ActionTake(i) ==
  /\ probe.actions[i].pc = "take"
  /\ PacketCommit(actionTake(Heap, probe.actions[i]), i)

ActionPlace(i) ==
  /\ probe.actions[i].pc = "place"
  /\ PacketCommit(actionPlace(Heap, probe.actions[i]), i)

InitPacket ==
  /\ occupants = [c \in Containers |-> {}]
  /\ openedContainer = [p \in Players |-> NoContainer]
  /\ sent = <<>> /\ last = NoCall
  /\ tasks = [i \in 1..MaxTasks |-> NoTask] /\ run = NoRun
  /\ player = NoPlayer /\ level = NoLevel /\ provider = NoProvider /\ tick = NoTick
  /\ \E ref \in SlotRefs, amt \in 1..MaxStack :
       \E source \in [PacketActions -> SlotRefs], destination \in [PacketActions -> SlotRefs],
          amt2 \in [PacketActions -> 1..MaxStack], vetoed \in [PacketActions -> BOOLEAN] :
         LET h == packetHeap(ref, amt)
             actions == [i \in PacketActions |->
                           [source |-> source[i][1], slot |-> source[i][2],
                            destination |-> destination[i][1], dslot |-> destination[i][2],
                            amount |-> amt2[i], vetoed |-> vetoed[i], pc |-> "start",
                            sourceItem |-> Null, destinationItem |-> Null,
                            newItem |-> Null, removed |-> 0]]
         IN  /\ alive = h.alive /\ type = h.type /\ amount = h.amount
             /\ metadata = h.metadata /\ container = h.container /\ world = h.world
             /\ traits = h.traits /\ dynamicProperties = h.dynamicProperties
             /\ nbt = h.nbt /\ storage = h.storage
             /\ probe = [fn |-> "packet", actions |-> actions,
                         expected |-> With(h, LAMBDA x : contents(applyInOrder(x, actions, 1)))]

NextPacket ==
  \/ \E i \in PacketActions : ActionRead(i)
  \/ \E i \in PacketActions : ActionTake(i)
  \/ \E i \in PacketActions : ActionPlace(i)

SpecPacket == InitPacket /\ [][NextPacket]_vars

\* C29: when every action of the packet is over, the containers hold what
\* they hold after the actions applied one after another in packet order.
C29_ActionsApplyInOrder ==
  (\A i \in PacketActions : probe.actions[i].pc = "done") =>
    contents(Heap) = probe.expected

(***************************************************************************)
(* PlayerAuthInputHandler.handleBlockActions, case PredictDestroyBlock.    *)
(***************************************************************************)
\* case PredictDestroyBlock for the block at position. success is what
\* block.destroy returns, request whether the packet carries a mine-block
\* request. packets are the UpdateBlock packets sent to the player, used
\* whether the item target's use hooks are run.
predictDestroyBlock(pl, position, success, request) ==
  IF pl.blockTarget = NoBlock /\ pl.gamemode # "creative"
  THEN [destroyed |-> FALSE, packets |-> <<LevelEvent("UpdateBlock", position)>>,
        used |-> FALSE]
  ELSE IF ~success
  THEN [destroyed |-> FALSE, packets |-> <<LevelEvent("UpdateBlock", position)>>,
        used |-> FALSE]
  ELSE [destroyed |-> TRUE, packets |-> <<>>, used |-> request /\ pl.itemTarget]

PredictDestroyBlock(position, success, request) ==
  /\ LET r == predictDestroyBlock(player, position, success, request)
     IN  level' = [type |-> "PredictDestroyBlock", position |-> position,
                   isAir |-> FALSE, vetoed |-> ~success, events |-> r.packets,
                   destroyed |-> r.destroyed, used |-> r.used]
  /\ UNCHANGED <<containerVars, player, probe, provider, tick>>

NextPredict ==
  \/ \E t \in {"StartDestroyBlock", "ContinueDestroyBlock"}, position \in Blocks,
        isAir \in BOOLEAN, hooks \in HookSeqs, held \in BOOLEAN, emitted \in BOOLEAN,
        itemHooks \in HookSeqs :
       StartDestroyBlock(t, position, isAir, hooks, held, emitted, itemHooks)
  \/ AbortDestroyBlock
  \/ \E held \in BOOLEAN : StartUsingItem(held)
  \/ \E position \in Blocks, success \in BOOLEAN, request \in BOOLEAN :
       PredictDestroyBlock(position, success, request)

SpecPredict == InitBreak /\ [][NextPredict]_vars

\* C30: a PredictDestroyBlock action of a player who is not in creative mode
\* destroys the block only when the player has a block target and the
\* action's position is that target; in every other case no block is
\* destroyed and an UpdateBlock packet for the position is sent to the player.
C30_PredictNeedsTarget ==
  [][(level'.type = "PredictDestroyBlock" /\ player.gamemode # "creative") =>
       IF player.blockTarget # NoBlock /\ level'.position = player.blockTarget
       THEN TRUE
       ELSE /\ ~level'.destroyed
            /\ \E i \in 1..Len(level'.events) :
                 level'.events[i] = LevelEvent("UpdateBlock", level'.position)]_vars

(***************************************************************************)
(* PlayerAuthInputHandler.handle: one PlayerAuthInput packet per step.     *)
(* Positions and deltas are in units of 1 / MotionUnit block.              *)
(***************************************************************************)
\* Largest input tick of a packet.
MaxInputTick == 1

InputPositions == {<<x, 0, 0>> : x \in {0, 5, TeleportDistance * MotionUnit}}

InputDeltas == {<<0, 0, 0>>, <<MotionUnit, 0, 0>>, <<0, 0 - MotionUnit, 0>>}

Rotations == {0, 1}

\* The block actions of a packet: none, one AbortDestroyBlock, or one
\* StartDestroyBlock of a block without traits.
BlockActionLists == {"none", "abort", "start"}

ZeroVector == <<0, 0, 0>>

\* The player a connection starts with.
InputPlayer ==
  [gamemode |-> "survival", blockTarget |-> NoBlock, itemTarget |-> FALSE,
   position |-> ZeroVector, rotation |-> 0, velocity |-> [delta |-> ZeroVector, gravity |-> FALSE],
   onGround |-> FALSE, isMoving |-> FALSE, inputTick |-> 0, isFalling |-> FALSE]

\* The part of handle after the validation: the packet's motion is taken
\* over, its block actions and its input actions are handled.
acceptInput(pl, pk) ==
  LET isMoving == pk.position # pl.position \/ pl.rotation # pk.rotation
      p1 == [pl EXCEPT !.onGround = pk.verticalCollision /\ ~pk.jumping,
                       !.isMoving = isMoving,
                       !.position = pk.position,
                       !.rotation = pk.rotation,
                       !.velocity = IF isMoving
                                    THEN [delta |-> pk.positionDelta, gravity |-> TRUE]
                                    ELSE [delta |-> ZeroVector, gravity |-> FALSE]]
      p2 == CASE pk.blockActions = "abort" ->
                   abortDestroyBlock(p1).player
               [] pk.blockActions = "start" ->
                   startDestroyBlock(p1, 1, FALSE, <<>>, FALSE, TRUE, <<>>).player
               [] OTHER -> p1
  IN  [player |-> p2, sent |-> <<>>,
       blockActions |-> IF pk.blockActions = "none" THEN 0 ELSE 1,
       actorActions |-> pk.inputActions]

\* A variant of handle that does not validate the motion.
handleUnvalidated(pl, pk) ==
  acceptInput([pl EXCEPT !.inputTick = pk.inputTick], pk)

\* handle(packet, connection) for a connected player. sent lists the
\* CorrectPlayerMovePrediction packets sent to the player.
handle(pl, pk) ==
  LET p0 == [pl EXCEPT !.inputTick = pk.inputTick]
      offset == [i \in 1..3 |-> pk.position[i] - pl.position[i]]
  IN  IF ~validatePlayerMotion(TRUE, pl.gamemode, FALSE, pl.isFalling, offset,
                               pk.positionDelta)
      THEN [player |-> p0,
            sent |-> <<[position |-> pl.position, velocity |-> ZeroVector,
                        onGround |-> pl.onGround, inputTick |-> pk.inputTick]>>,
            blockActions |-> 0, actorActions |-> 0]
      ELSE acceptInput(p0, pk)

InputPackets ==
  [position : InputPositions, positionDelta : InputDeltas, rotation : Rotations,
   verticalCollision : BOOLEAN, jumping : {FALSE}, blockActions : BlockActionLists,
   inputActions : {0, 1}, inputTick : 1..MaxInputTick]

\* The motion of packet pk is rejected for player pl.
rejected(pl, pk) ==
  ~validatePlayerMotion(TRUE, pl.gamemode, FALSE, pl.isFalling,
                        [i \in 1..3 |-> pk.position[i] - pl.position[i]], pk.positionDelta)

Handle(pk) ==
  /\ LET r == handle(player, pk)
     IN  /\ player' = r.player
         /\ level' = [type |-> "handle", rejected |-> rejected(player, pk),
                      moved |-> pk.position # player.position,
                      requested |-> IF pk.blockActions = "none" THEN 0 ELSE 1,
                      inputs |-> pk.inputActions, sent |-> r.sent,
                      blockActions |-> r.blockActions, actorActions |-> r.actorActions]
  /\ UNCHANGED <<containerVars, probe, provider, tick>>

\* The entity starts or stops falling between two packets.
SetFalling(isFalling) ==
  /\ player.isFalling # isFalling
  /\ player' = [player EXCEPT !.isFalling = isFalling]
  /\ level' = NoLevel
  /\ UNCHANGED <<containerVars, probe, provider, tick>>

InitInput ==
  /\ ContainerInit
  /\ player = InputPlayer
  /\ level = NoLevel /\ probe = NoProbe /\ provider = NoProvider /\ tick = NoTick

NextInput ==
  \/ \E pk \in InputPackets : Handle(pk)
  \/ \E isFalling \in BOOLEAN : SetFalling(isFalling)

SpecInput == InitInput /\ [][NextInput]_vars

\* C31: when the motion of a PlayerAuthInput packet is rejected, one
\* correction packet with the stored position and zero velocity is sent, the
\* player's position, rotation, velocity, onGround, isMoving, blockTarget and
\* itemTarget stay as they are, and no block or input action is processed.
C31_RejectedInputChangesNothing ==
  [][(level'.type = "handle" /\ level'.rejected) =>
       /\ Len(level'.sent) = 1
       /\ level'.sent[1].position = player.position
       /\ level'.sent[1].velocity = ZeroVector
       /\ player'.position = player.position
       /\ player'.rotation = player.rotation
       /\ player'.velocity = player.velocity
       /\ player'.onGround = player.onGround
       /\ player'.isMoving = player.isMoving
       /\ player'.blockTarget = player.blockTarget
       /\ player'.itemTarget = player.itemTarget
       /\ level'.blockActions = 0
       /\ level'.actorActions = 0]_vars

\* A packet with a block action and an input action was rejected for a
\* player who had moved and was breaking a block.
C31_RejectedWhileBreaking ==
  /\ level.type = "handle"
  /\ Len(level.sent) = 1
  /\ level.rejected
  /\ level.requested = 1
  /\ level.inputs = 1
  /\ level.moved
  /\ player.position # ZeroVector
  /\ player.blockTarget # NoBlock

(***************************************************************************)
(* The AbortDestroyBlock case of handleBlockActions.                       *)
(***************************************************************************)
\* C32: after an AbortDestroyBlock action the player has no block target and
\* no item target; the onStopBreak hooks of the former target are called and
\* one StopBlockCracking event for it is broadcast when the player had a block
\* target before the action, and neither happens when the player had none.
C32_AbortLeavesIdle ==
  [][level'.type = "AbortDestroyBlock" =>
       /\ player'.blockTarget = NoBlock
       /\ player'.itemTarget = FALSE
       /\ IF player.blockTarget # NoBlock
          THEN /\ level'.onStopBreak = player.blockTarget
               /\ level'.events = <<LevelEvent("StopBlockCracking", player.blockTarget)>>
          ELSE /\ level'.onStopBreak = NoBlock
               /\ level'.events = <<>>]_vars

\* An AbortDestroyBlock of a player who was breaking a block with an item.
C32_AbortedWhileBreaking ==
  /\ level.type = "AbortDestroyBlock"
  /\ level.onStopBreak # NoBlock
  /\ level.onStopUse
  /\ Len(level.events) = 1
  /\ player.blockTarget = NoBlock

(***************************************************************************)
(* The container back-reference of a stack.                                *)
(***************************************************************************)
\* C33: in every reachable state the container back-reference of a live
\* ItemStack is c exactly when the stack is stored in a slot of c, so the slot
\* that a later update of the stack writes (ItemStack.slot) is never -1.
C33_BackReferenceMatchesSlot ==
  \A s \in alive :
    /\ \A c \in Containers :
         container[s] = c <=> \E i \in 1..Len(storage[c]) : storage[c][i] = s
    /\ container[s] # NoContainer => indexOf(storage[container[s]], s) >= 0

(***************************************************************************)
(* The dirty flags after a save.                                           *)
(***************************************************************************)
\* C34: after an onSave in which no chunk write threw, no chunk of the
\* provider's cache is flagged dirty, whatever the chunks contained (a dirty
\* chunk that is empty included).
C34_SaveResetsDirty ==
  (/\ provider.op = "onSave"
   /\ \A i \in 1..Len(provider.log) :
        provider.log[i].kind = "writeChunk" => provider.log[i].result # "threw")
    => \A i \in 1..Len(provider.chunks) : ~provider.chunks[i].dirty

(***************************************************************************)
(* addTrait with an onAdd that throws.                                     *)
(***************************************************************************)
\* C35: when the onAdd hook of a trait throws during addTrait, the call
\* returns without throwing, its result is null, and the trait is not
\* attached to the stack afterwards.
C35_FailedAddIsUndone ==
  [][\A c \in TraitCalls :
       (probe.calls[c].pc = "onAdd" /\ probe.calls[c].threw
        /\ probe'.calls[c].pc # "onAdd") =>
         /\ probe'.calls[c].pc = "returned"
         /\ probe'.calls[c].ret = 0
         /\ probe'.traits[probe.calls[c].id] # probe.calls[c].instance]_vars

(***************************************************************************)
(* LevelDBProvider.writeBlock / readBlock: the block entry is stored as    *)
(* JSON text, written by JSON.stringify with no replacer and read by       *)
(* JSON.parse with no reviver.                                             *)
(***************************************************************************)
BlockIdentifiers == {<<"minecraft:chest">>, <<"minecraft:stone">>}

\* The JSON value null.
JsonNull == [kind |-> "null", n |-> 0, s |-> <<>>]

\* The keys of the block data records: a dimension index and a position.
BlockKeys == Dimensions \X Blocks

\* JSON.stringify of a value that is not a big integer: a number that is not
\* finite is written as null.
plainStringifyValue(value) ==
  IF value.kind \in {"Infinity", "-Infinity", "NaN"} THEN JsonNull ELSE value

\* writeBlock(block, dimension): JSON.stringify throws a TypeError on a big
\* integer, and then nothing is put in the database.
writeBlock(db, block, dimension) ==
  IF block.identifier.kind = "bigint" \/ block.value.kind = "bigint"
    THEN [threw |-> TRUE, db |-> db]
  ELSE [threw |-> FALSE,
        db |-> [db EXCEPT ![<<dimension, block.position>>] =
                  [position |-> block.position,
                   identifier |-> plainStringifyValue(block.identifier),
                   value |-> plainStringifyValue(block.value)]]]

\* readBlock(hash, dimension): the text under the key, parsed. A key the
\* database does not hold makes db.get throw.
readBlock(db, position, dimension, default) ==
  IF db[<<dimension, position>>].position = NoBlock
    THEN [threw |-> TRUE, block |-> default]
  ELSE [threw |-> FALSE, block |-> db[<<dimension, position>>]]

WriteBlockThenRead ==
  /\ probe.fn = "writeBlock"
  /\ ~probe.done
  /\ LET w == writeBlock(probe.db, probe.block, probe.dimension)
         r == readBlock(w.db, probe.block.position, probe.dimension, probe.read)
     IN  probe' = [probe EXCEPT !.done = TRUE, !.db = w.db, !.writeThrew = w.threw,
                                !.readThrew = r.threw, !.read = r.block]
  /\ UNCHANGED <<containerVars, player, level, provider, tick>>

InitBlockStore ==
  /\ ContainerInit
  /\ player = NoPlayer /\ level = NoLevel /\ provider = NoProvider /\ tick = NoTick
  /\ \E dimension \in Dimensions, position \in Blocks, identifier \in BlockIdentifiers,
        value \in EntryValues :
       probe = [fn |-> "writeBlock", dimension |-> dimension,
                block |-> [position |-> position, identifier |-> String(identifier),
                           value |-> value],
                db |-> [k \in BlockKeys |->
                          [position |-> NoBlock, identifier |-> JsonNull,
                           value |-> JsonNull]],
                done |-> FALSE, writeThrew |-> FALSE, readThrew |-> FALSE,
                read |-> [position |-> NoBlock, identifier |-> JsonNull,
                          value |-> JsonNull]]

NextBlockStore == WriteBlockThenRead

SpecBlockStore == InitBlockStore /\ [][NextBlockStore]_vars

\* C36: a block entry whose dynamic properties hold a big integer, Infinity,
\* -Infinity or NaN is written by writeBlock without a failure, and readBlock
\* returns an entry equal to the one written.
C36_StoredBlockReadsBack ==
  (/\ probe.fn = "writeBlock" /\ probe.done
   /\ probe.block.value.kind \in {"bigint", "Infinity", "-Infinity", "NaN"}) =>
    /\ ~probe.writeThrew
    /\ ~probe.readThrew
    /\ probe.read = probe.block

(***************************************************************************)
(* The re-invocation of use, useOnBlock and useOnEntity with a corrected   *)
(* method. A hook is a function of the requested method; the call is the   *)
(* loop over the traits, restarted by each correction.                     *)
(***************************************************************************)
\* Largest ItemUseMethod value.
MaxMethod == 1

UseMethods == 0..MaxMethod

\* What onUse gives for a requested method: nothing, a boolean, an error
\* thrown, or a number (the corrected method).
UseOutcomes ==
  {[kind |-> k, method |-> 0] : k \in {"undefined", "true", "false", "throw"}}
    \cup {[kind |-> "number", method |-> m] : m \in UseMethods}

\* The hooks that return a correction only when the requested method is not
\* the method they return.
UseHooks == {f \in [UseMethods -> UseOutcomes] : \A m \in UseMethods : f[m].kind = "number" => f[m].method # m}

\* One iteration of the loop of use: the hook of trait i is called with the
\* requested method. A number makes the call send the packet and return
\* this.use(player, {...options, method: success}): the loop starts again
\* on the traits with the corrected method.
onUse(P) ==
  LET success == P.traits[P.i][P.method]
  IN  IF success.kind = "undefined" THEN [P EXCEPT !.i = @ + 1]
      ELSE IF success.kind = "number"
        THEN [P EXCEPT !.method = success.method, !.i = 1, !.canceled = FALSE,
                       !.corrected = TRUE]
      ELSE IF success.kind = "throw" THEN [P EXCEPT !.traits = Without(@, P.i)]
      ELSE [P EXCEPT !.i = @ + 1, !.canceled = (success.kind = "false")]

\* The end of the loop: the signal is emitted and the call returns.
emitUse(P, vetoed) ==
  [P EXCEPT !.pc = "done", !.result = (~P.canceled) /\ ~vetoed]

OnUse ==
  /\ probe.fn = "use"
  /\ probe.pc = "loop"
  /\ probe.i <= Len(probe.traits)
  /\ probe' = onUse(probe)
  /\ UNCHANGED <<containerVars, player, level, provider, tick>>

EmitUse(vetoed) ==
  /\ probe.fn = "use"
  /\ probe.pc = "loop"
  /\ probe.i > Len(probe.traits)
  /\ probe' = emitUse(probe, vetoed)
  /\ UNCHANGED <<containerVars, player, level, provider, tick>>

InitCorrect ==
  /\ ContainerInit
  /\ player = NoPlayer /\ level = NoLevel /\ provider = NoProvider /\ tick = NoTick
  /\ \E n \in 0..MaxTraits : \E hooks \in [1..n -> UseHooks], method \in UseMethods :
       probe = [fn |-> "use", pc |-> "loop", method |-> method, traits |-> hooks,
                i |-> 1, canceled |-> FALSE, corrected |-> FALSE, result |-> FALSE]

NextCorrect ==
  \/ OnUse
  \/ \E vetoed \in BOOLEAN : EmitUse(vetoed)

\* The call is resumed after each await until it returns.
SpecCorrect == InitCorrect /\ [][NextCorrect]_vars /\ WF_vars(NextCorrect)

\* C37: every call of use returns after finitely many hook invocations,
\* whatever the attached traits, when each hook returns a corrected method
\* only for a requested method that differs from it.
C37_UseReturns == <>(probe.fn = "use" /\ probe.pc = "done")

Times == {0 - DayLength - 1, 0 - DayLength, -1, 0, 1, DayLength - 1, DayLength,
          DayLength + 1}

\* World.setTimeOfDay(time): the counter is set and broadcast.
setTimeOfDay(t, time) ==
  [t EXCEPT !.op = "setTimeOfDay", !.dayTime = Remainder(time, DayLength),
            !.packets = <<[time |-> Remainder(time, DayLength)]>>]

SetTimeOfDay(time) ==
  /\ tick' = setTimeOfDay(tick, time)
  /\ UNCHANGED <<containerVars, player, level, probe, provider>>

NextTime ==
  \/ NextTick
  \/ \E time \in Times : SetTimeOfDay(time)

SpecTime == InitTick /\ [][NextTime]_vars

\* C39: in every reachable state 0 <= dayTime < 24000, after any sequence of
\* World.onTick calls and setTimeOfDay calls with any integer time.
C39_DayTimeInRange == tick.dayTime >= 0 /\ tick.dayTime < DayLength

(***************************************************************************)
(* BlockButtonTrait. onInteract and onTick each await setState once; a     *)
(* call suspended there resumes before the server moves to its next tick,  *)
(* and other calls can run in between. probe holds the button: its pressed *)
(* bit, its releaseTick, the world's current tick and the calls suspended. *)
(* pressedAt, ignored and released record the history: the tick of the     *)
(* press that is not yet released, whether an interaction returned at the  *)
(* releaseTick check since the last press, and whether the last step       *)
(* released the button.                                                    *)
(***************************************************************************)
\* Ticks a button stays pressed.
ReleaseDelay == 40

\* Last server tick of a behaviour.
MaxButtonTick == 42

\* Largest number of suspended calls of one handler.
MaxPending == 2

NoButton == [fn |-> "button", op |-> "none", returned |-> TRUE, pressed |-> FALSE,
             releaseTick |-> -1, currentTick |-> 0, interacting |-> 0,
             releasing |-> 0, pressedAt |-> -1, ignored |-> FALSE,
             released |-> FALSE]

\* The part of onInteract after the check of options.cancel and
\* options.origin, without the check of releaseTick.
toggle(B) ==
  [B EXCEPT !.op = "onInteract", !.returned = FALSE, !.released = FALSE,
            !.pressed = ~B.pressed, !.interacting = @ + 1,
            !.pressedAt = IF ~B.pressed THEN B.currentTick ELSE @,
            !.ignored = IF ~B.pressed THEN FALSE ELSE @]

\* A variant of onInteract that toggles the button whatever its releaseTick.
onInteractAlways(B, cancel) ==
  IF cancel THEN [B EXCEPT !.op = "onInteract", !.returned = TRUE, !.released = FALSE,
                           !.pressed = FALSE]
  ELSE toggle(B)

\* onInteract up to its await of setState. cancel: the interaction is
\* cancelled or has no origin.
onInteract(B, cancel) ==
  IF cancel THEN [B EXCEPT !.op = "onInteract", !.returned = TRUE, !.released = FALSE,
                           !.pressed = FALSE]
  ELSE IF B.releaseTick # -1
    THEN [B EXCEPT !.op = "onInteract", !.returned = TRUE, !.released = FALSE,
                   !.ignored = TRUE]
  ELSE toggle(B)

\* onInteract after the await: the release tick is set.
onInteractResume(B) ==
  [B EXCEPT !.op = "onInteract", !.returned = TRUE, !.released = FALSE,
            !.interacting = @ - 1, !.releaseTick = B.currentTick + ReleaseDelay]

\* onTick of the trait up to its await of setState.
buttonOnTick(B) ==
  IF B.releaseTick = -1 \/ B.releaseTick > B.currentTick
    THEN [B EXCEPT !.op = "onTick", !.returned = TRUE, !.released = FALSE]
  ELSE [B EXCEPT !.op = "onTick", !.returned = FALSE, !.released = FALSE,
                 !.pressed = FALSE, !.releasing = @ + 1]

\* onTick after the await: the release tick is reset.
buttonOnTickResume(B) ==
  [B EXCEPT !.op = "onTick", !.returned = TRUE, !.released = TRUE,
            !.releasing = @ - 1, !.releaseTick = -1,
            !.pressedAt = -1]

OnInteract(cancel) ==
  /\ probe.interacting < MaxPending
  /\ probe' = onInteract(probe, cancel)
  /\ UNCHANGED <<containerVars, player, level, provider, tick>>

OnInteractResume ==
  /\ probe.interacting > 0
  /\ probe' = onInteractResume(probe)
  /\ UNCHANGED <<containerVars, player, level, provider, tick>>

ButtonOnTick ==
  /\ probe.releasing < MaxPending
  /\ probe' = buttonOnTick(probe)
  /\ UNCHANGED <<containerVars, player, level, provider, tick>>

ButtonOnTickResume ==
  /\ probe.releasing > 0
  /\ probe' = buttonOnTickResume(probe)
  /\ UNCHANGED <<containerVars, player, level, provider, tick>>

\* The server moves to its next tick; no call is suspended across ticks.
ButtonServerTick ==
  /\ probe.interacting = 0 /\ probe.releasing = 0
  /\ probe.currentTick < MaxButtonTick
  /\ probe' = [probe EXCEPT !.op = "serverTick", !.returned = TRUE, !.released = FALSE,
                            !.currentTick = @ + 1]
  /\ UNCHANGED <<containerVars, player, level, provider, tick>>

InitButton ==
  /\ ContainerInit
  /\ player = NoPlayer /\ level = NoLevel /\ provider = NoProvider /\ tick = NoTick
  /\ \E pressed \in BOOLEAN : probe = [NoButton EXCEPT !.pressed = pressed]

NextButton ==
  \/ \E cancel \in BOOLEAN : OnInteract(cancel)
  \/ OnInteractResume
  \/ ButtonOnTick
  \/ ButtonOnTickResume
  \/ ButtonServerTick

SpecButton == InitButton /\ [][NextButton]_vars

====
